---- MODULE Spec2Model ----
(***************************************************************************)
(* vband: Morse (CW) decoding and keying engine.                           *)
(*                                                                         *)
(* The module models, from the Python sources under src/src/vband:         *)
(*   - decoder.py  MORSE_CODE, MORSE_TREE, MorseDecoder, SpaceMarkDecoder  *)
(*   - keyer.py    IambicKeyer, SpaceMarkKeyer                             *)
(* Each component has its own specification over the shared variables;     *)
(* the variables of the other components stay at their initial values.     *)
(*                                                                         *)
(* Durations of the adaptive decoder are Python floats; they are modelled  *)
(* as exact rationals [n, d] in lowest terms.                              *)
(***************************************************************************)
EXTENDS Integers, Sequences, FiniteSets, TLC

VARIABLES
  \* ---- SpaceMarkDecoder (decoder.py 308-556)
  dit_length,      \* self.dit_length, ms (rational)
  last_mark,       \* self.last_mark, ms (rational)
  char_space,      \* self.char_space, ms (rational)
  morse_ch,        \* self.morse_ch, index in the binary tree
  decoded_text,    \* self.decoded_text, sequence of characters
  flush_timer,     \* self._flush_timer is not None (a timer is armed)
  smd_ret,         \* value returned by the last decode_space_mark()/flush(); << >> is None
  smd_calls,       \* number of decode_space_mark() calls made so far
  \* ---- keying of one table pattern into the tree index
  tx_pattern,      \* the Morse pattern being keyed
  tx_pos,          \* number of its symbols keyed so far
  tx_done,         \* the keyed pattern has been flushed
  \* ---- MorseDecoder (decoder.py 178-277) and its caller
  current_char,      \* self._current_char, the pattern so far
  last_element_time, \* self._last_element_time, ms; NoTime is None
  md_ret,            \* value returned by the last call, in pieces; << >> is None
  md_op,             \* the last call: "init", "process", "flush" or "reset"
  md_now,            \* the caller's clock, ms
  md_last_end,       \* when the last element handed over ended, ms
  md_run,            \* symbols handed over since the last silence >= character space
  md_count,          \* number of elements handed over so far
  \* ---- which keyer object the run constructs
  keyer,             \* "none", "IambicKeyer" or "SpaceMarkKeyer"
  \* ---- IambicKeyer (keyer.py 11-185); time in units of one dit
  ik_running,        \* self._running
  ik_dit_pressed,    \* self._dit_pressed
  ik_dah_pressed,    \* self._dah_pressed
  ik_last_was_dit,   \* self._last_was_dit
  ik_squeeze_memory, \* self._squeeze_memory
  ik_queue,          \* self._element_queue: the last elements put, oldest first
  ik_pc,             \* the loop thread: "off", "poll" or "sleep"
  ik_is_dit,         \* the loop's local is_dit while it sleeps
  ik_sleep,          \* dits left of the loop's time.sleep()
  ik_updates,        \* update_paddle_state() calls made so far
  ik_held,           \* observer: both paddles held ever since the last element was put
  \* ---- SpaceMarkKeyer (keyer.py 188-509); time in units of one dit
  paddle_type,       \* self.config.paddle_type
  running,           \* self._running
  dit_pressed,       \* self._dit_pressed
  dah_pressed,       \* self._dah_pressed
  state,             \* self._state: "IDLE", "MARK" or "INTER_ELEMENT"
  cur_paddle,        \* self._cur_paddle: DIT or DAH
  paddle_memory,     \* self._paddle_memory, <<dit, dah>>
  timer,             \* self._timer: NoTimer or the dits it has left
  timeout_timer,     \* self._timeout_timer: the thread it refers to, 0 for None
  timeout_threads,   \* the paddle-timeout Timer threads: phase and dits left
  pair_queue,        \* self._pair_queue: the last pairs put, oldest first
  bug_dit_mode,      \* self._bug_dit_mode: 0 OFF, 1 MARK, 2 SPACE
  straight_sending,  \* self._straight_sending
  straight_space_time, \* self._straight_space_time, dits
  elapsed,           \* _get_ms() - self._start_time, dits, up to MaxElapsed
  lp,                \* the loop thread's place in _update
  lp_i,              \* the pass of the selection loop, 1 or 2
  updates,           \* update_paddle_state() calls made so far
  sq_held,           \* observer: both contacts held ever since the last mark was generated
  rel_type,          \* observer: the mark during which a squeeze was released, "none" if none
  rel_marks,         \* observer: marks generated since that release, up to 2
  stop_pc,           \* the place of a stop() call under way, "none" if none
  stops,             \* stop() calls made so far
  \* ---- SpaceMarkDecoder threads (decoder.py 343-485, 540-556)
  mt_pc,           \* the calling thread's place in decode_space_mark, flush or clear
  mt_cont,         \* where the calling thread goes on after _flush_character
  mt_space,        \* space_ms of the call under way
  mt_mark,         \* mark_ms of the call under way
  mt_ch,           \* the calling thread's local ch, "" for None
  ft_pc,           \* the timer thread's place in _flush_timer_expired
  ft_ch,           \* the timer thread's local ch
  ft_stale,        \* observer: the running callback's handle was cleared or replaced
  flush_interval,  \* the interval of the armed flush timer, ms (rational)
  pend_ix,         \* observer: tree index of the marks decoded and not yet flushed
  \* ---- CWDecoder (decoder.py 102-174)
  press_time,         \* self._press_time: per key (TRUE dit, FALSE dah) ms or NoTime
  recent_durations,   \* self._recent_durations: <<duration, is_dit>>, oldest first
  cw_dit_duration,    \* self.config.dit_duration, ms (rational)
  cw_auto_wpm,        \* self.config.auto_wpm
  cw_ret,             \* the element process_event returned, << >> for None
  cw_event,           \* observer: <<is_dit, is_pressed>> of the last event
  cw_now,             \* the timestamp of the last event, ms
  cw_events,          \* process_event() calls made so far
  recent_dits,        \* observer: durations of the last RecentMax dits the estimator was given
  \* ---- PaddleInterface (paddle.py 37-251)
  pi_paddle_type,     \* self.config.paddle_type
  pi_keyer,           \* self._keyer is not None
  pi_running,         \* self._running
  pi_dit_pressed,     \* self._dit_pressed
  pi_dah_pressed,     \* self._dah_pressed
  pi_event_queue,     \* self._event_queue: the last events put, oldest first
  pi_op,              \* the last call made on the interface
  pi_ret,             \* what that call returned or raised
  pi_started,         \* observer: start() was called at some time
  \* ---- observers of the SpaceMarkKeyer loop
  dah_keyed,          \* the loop has seen the dah contact closed during the mark under way
  snap_stale,         \* the contacts have changed since the tick under way read one of them
  mark_gap,           \* dits since the last mark's timer expired or since start(), up to MaxElapsed
  owed,               \* <<dit, dah>>: a press was latched and no mark of the paddle generated since
  \* ---- a client that calls start() and stop() (stream.py 19-197)
  client,             \* the object the client has constructed, "none" if none
  st_running,         \* CWStream._running or DecodedStream._running
  st_pc,              \* the stream's _process_loop thread: "off" or "loop"
  last_calls,         \* observer: the last two calls the client made, oldest first
  loops_made,         \* observer: loop threads start() has created for the client's object
  \* ---- VBandConfig (config.py 19-95); config.dit_duration is cw_dit_duration
  target_wpm,         \* self.target_wpm, 0 for None
  wpm_op,             \* the last call on the configuration
  wpm_arg,            \* the wpm that call was given, 0 if none
  wpm_ret             \* the wpm that call returned, 0 if none

smdVars == <<dit_length, last_mark, char_space, morse_ch, decoded_text,
             flush_timer, smd_ret, smd_calls>>
txVars == <<tx_pattern, tx_pos, tx_done>>
mdVars == <<current_char, last_element_time, md_ret, md_op, md_now,
            md_last_end, md_run, md_count>>
ikVars == <<ik_running, ik_dit_pressed, ik_dah_pressed, ik_last_was_dit,
            ik_squeeze_memory, ik_queue, ik_pc, ik_is_dit, ik_sleep,
            ik_updates, ik_held>>
skVars == <<paddle_type, running, dit_pressed, dah_pressed, state, cur_paddle,
            paddle_memory, timer, timeout_timer, timeout_threads, pair_queue,
            bug_dit_mode, straight_sending, straight_space_time, elapsed, lp,
            lp_i, updates, sq_held, rel_type, rel_marks, stop_pc, stops>>
stopVars == <<stop_pc, stops>>
keyerVars == <<keyer, ikVars, skVars>>
raceVars == <<mt_pc, mt_cont, mt_space, mt_mark, mt_ch, ft_pc, ft_ch, ft_stale,
              flush_interval, pend_ix>>
cwVars == <<press_time, recent_durations, cw_dit_duration, cw_auto_wpm, cw_ret,
            cw_event, cw_now, cw_events, recent_dits>>
piVars == <<pi_paddle_type, pi_keyer, pi_running, pi_dit_pressed,
            pi_dah_pressed, pi_event_queue, pi_op, pi_ret, pi_started>>
obsVars == <<dah_keyed, snap_stale, mark_gap, owed>>
lifeVars == <<client, st_running, st_pc, last_calls, loops_made>>
wpmVars == <<target_wpm, wpm_op, wpm_arg, wpm_ret>>
moreVars == <<obsVars, lifeVars, wpmVars>>
restVars == <<raceVars, cwVars, piVars, moreVars>>
vars == <<smdVars, txVars, mdVars, keyerVars, restVars>>

-----------------------------------------------------------------------------
(* Bounds of the model *)

\* decode_space_mark() calls per run
MaxPairs == 2
\* largest denominator kept for dit_length and char_space
MaxDen == 200
\* elements handed to MorseDecoder per run
MaxElements == 3
\* update_paddle_state() calls per run
MaxUpdates == 2
\* elements or pairs kept in a keyer's output queue: the reader has taken
\* the older ones
MaxQueue == 1
\* paddle-timeout Timer threads alive at once
MaxTimers == 2
\* longest time measured between two pairs, in dits
MaxElapsed == 3
\* stop() calls per run
MaxStops == 1
\* dits and dahs of one malformed pattern
MaxSymbols == 8
\* process_event() calls per run
MaxEvents == 7
\* loop threads created for one object
MaxLoops == 2
\* the 5 s paddle timeout in dits: config.dit_duration is 1.0 s
TimeoutDits == 5

-----------------------------------------------------------------------------
(* Exact rational arithmetic for the float computations *)

RECURSIVE GCD(_, _)
GCD(a, b) == IF b = 0 THEN a ELSE GCD(b, a % b)

Abs(x) == IF x < 0 THEN -x ELSE x

\* n/d in lowest terms, d > 0
Rat(n, d) ==
  LET g == GCD(Abs(n), Abs(d))
      s == IF d < 0 THEN -1 ELSE 1
  IN  [n |-> s * (n \div g), d |-> s * (d \div g)]

RInt(i) == [n |-> i, d |-> 1]
RAdd(a, b) == Rat(a.n * b.d + b.n * a.d, a.d * b.d)
\* a * p/q
RScale(a, p, q) == Rat(a.n * p, a.d * q)
RLt(a, b) == a.n * b.d < b.n * a.d
RLe(a, b) == a.n * b.d <= b.n * a.d

-----------------------------------------------------------------------------
(* The Morse tables *)

\* decoder.py 12-74: the dict literal, entries in source order.  A pattern
\* written twice keeps its last value, as a Python dict literal does.
MORSE_CODE ==
  <<
     << <<".", "-">>, "A" >>,
     << <<"-", ".", ".", ".">>, "B" >>,
     << <<"-", ".", "-", ".">>, "C" >>,
     << <<"-", ".", ".">>, "D" >>,
     << <<".">>, "E" >>,
     << <<".", ".", "-", ".">>, "F" >>,
     << <<"-", "-", ".">>, "G" >>,
     << <<".", ".", ".", ".">>, "H" >>,
     << <<".", ".">>, "I" >>,
     << <<".", "-", "-", "-">>, "J" >>,
     << <<"-", ".", "-">>, "K" >>,
     << <<".", "-", ".", ".">>, "L" >>,
     << <<"-", "-">>, "M" >>,
     << <<"-", ".">>, "N" >>,
     << <<"-", "-", "-">>, "O" >>,
     << <<".", "-", "-", ".">>, "P" >>,
     << <<"-", "-", ".", "-">>, "Q" >>,
     << <<".", "-", ".">>, "R" >>,
     << <<".", ".", ".">>, "S" >>,
     << <<"-">>, "T" >>,
     << <<".", ".", "-">>, "U" >>,
     << <<".", ".", ".", "-">>, "V" >>,
     << <<".", "-", "-">>, "W" >>,
     << <<"-", ".", ".", "-">>, "X" >>,
     << <<"-", ".", "-", "-">>, "Y" >>,
     << <<"-", "-", ".", ".">>, "Z" >>,
     << <<"-", "-", "-", "-", "-">>, "0" >>,
     << <<".", "-", "-", "-", "-">>, "1" >>,
     << <<".", ".", "-", "-", "-">>, "2" >>,
     << <<".", ".", ".", "-", "-">>, "3" >>,
     << <<".", ".", ".", ".", "-">>, "4" >>,
     << <<".", ".", ".", ".", ".">>, "5" >>,
     << <<"-", ".", ".", ".", ".">>, "6" >>,
     << <<"-", "-", ".", ".", ".">>, "7" >>,
     << <<"-", "-", "-", ".", ".">>, "8" >>,
     << <<"-", "-", "-", "-", ".">>, "9" >>,
     << <<".", "-", ".", "-", ".", "-">>, "." >>,
     << <<"-", "-", ".", ".", "-", "-">>, "," >>,
     << <<".", ".", "-", "-", ".", ".">>, "?" >>,
     << <<".", "-", "-", "-", "-", ".">>, "'" >>,
     << <<"-", ".", "-", ".", "-", "-">>, "!" >>,
     << <<"-", ".", ".", "-", ".">>, "/" >>,
     << <<"-", ".", "-", "-", ".">>, "(" >>,
     << <<"-", ".", "-", "-", ".", "-">>, ")" >>,
     << <<".", "-", ".", ".", ".">>, "&" >>,
     << <<"-", "-", "-", ".", ".", ".">>, ":" >>,
     << <<"-", ".", "-", ".", "-", ".">>, ";" >>,
     << <<"-", ".", ".", ".", "-">>, "=" >>,
     << <<".", "-", ".", "-", ".">>, "+" >>,
     << <<"-", ".", ".", ".", ".", "-">>, "-" >>,
     << <<".", ".", "-", "-", ".", "-">>, "_" >>,
     << <<".", "-", ".", ".", "-", ".">>, "\"" >>,
     << <<".", ".", ".", "-", ".", ".", "-">>, "$" >>,
     << <<".", "-", "-", ".", "-", ".">>, "@" >>,
     << <<".", ".", ".", "-", ".", "-">>, "<SK>" >>,
     << <<".", "-", ".", "-", ".">>, "<AR>" >>,
     << <<"-", ".", ".", ".", "-">>, "<BT>" >>,
     << <<"-", ".", "-", ".", "-">>, "<KA>" >>,
     << <<".", ".", ".", "-", ".">>, "<VE>" >>,
     << <<".", ".", ".", ".", ".", ".", ".">>, "<ERROR>" >>
  >>
MORSE_TREE ==
  <<
     "*", "*", "E", "T", "I", "A", "N", "M", "S", "U",
     "R", "W", "D", "K", "G", "O", "H", "V", "F", "x9C",
     "L", "xC4", "P", "J", "B", "X", "C", "Y", "Z", "Q",
     "xD6", "xE4", "5", "4", "x9D", "3", "xC9", "*", "xC2", "2",
     "&", "xC8", "+", "*", "xDE", "xC3", "xF4", "3", "4", "1",
     "6", "=", "/", "*", "xC6", "^", "(", "*", "7", "xBB",
     "xE3", "xD1", "8", "*", "9", "0", "*", "*", "*", "*",
     "*", "|", "*", "*", "*", "*", "*", "*", "?", "_",
     "*", "*", "*", "*", "\"", "*", "xB6", ".", "*", "*",
     "*", "*", "@", "*", "*", "*", "'", "*", "*", "-",
     "*", "*", "*", "*", "*", "*", "*", "*", ";", "!",
     "*", ")", "*", "*", "*", "*", "xB9", ",", "*", "*",
     "*", "*", ":", "*", "*", "*", "*", "*", "*", "*"
  >>

Last(S) == CHOOSE i \in S : \A j \in S : j <= i

\* MORSE_CODE.get(pattern): the value of the last entry written for the
\* pattern, "" when the pattern is not a key
MorseGet(pattern) ==
  LET hits == {i \in 1..Len(MORSE_CODE) : MORSE_CODE[i][1] = pattern}
  IN  IF hits = {} THEN "" ELSE MORSE_CODE[Last(hits)][2]

\* the keys of MORSE_CODE
MorsePatterns == {MORSE_CODE[i][1] : i \in 1..Len(MORSE_CODE)}

\* len(MORSE_TREE); MORSE_TREE[i] of the source is MORSE_TREE[i + 1] here
TreeLen == Len(MORSE_TREE)

-----------------------------------------------------------------------------
(* IambicKeyer: elements on a queue.  Time is counted in dits. *)

\* the queue after put(x), the reader keeping up
Put(queue, x) ==
  IF Len(queue) < MaxQueue THEN Append(queue, x)
  ELSE Append(Tail(queue), x)

\* keyer.py 21-41 __init__
IKInit ==
  /\ ik_running = FALSE
  /\ ik_dit_pressed = FALSE
  /\ ik_dah_pressed = FALSE
  /\ ik_last_was_dit = TRUE
  /\ ik_squeeze_memory = FALSE
  /\ ik_queue = << >>
  /\ ik_pc = "off"
  /\ ik_is_dit = TRUE
  /\ ik_sleep = 0
  /\ ik_updates = 0
  /\ ik_held = FALSE

\* _get_next_element_mode_b answering a squeeze with the element sent last
RepeatOnSqueeze(dit, dah, lwd, sm) ==
  IF dit /\ dah
    THEN [element |-> IF lwd THEN "dit" ELSE "dah", squeeze_memory |-> TRUE]
  ELSE IF sm /\ (dit \/ dah)
    THEN [element |-> IF dit THEN (IF lwd THEN "dah" ELSE "dit")
                             ELSE (IF ~lwd THEN "dit" ELSE "dah"),
          squeeze_memory |-> FALSE]
  ELSE IF ~dit /\ ~dah
    THEN [element |-> "none", squeeze_memory |-> FALSE]
  ELSE IF dit
    THEN [element |-> "dit", squeeze_memory |-> sm]
  ELSE [element |-> "dah", squeeze_memory |-> sm]

\* keyer.py 128-172 _get_next_element_mode_b(dit_pressed, dah_pressed) with
\* _last_was_dit = lwd and _squeeze_memory = sm:
\* [element: "dit", "dah" or "none", squeeze_memory afterwards]
GetNextElementModeB(dit, dah, lwd, sm) ==
  IF dit /\ dah
    THEN [element |-> IF ~lwd THEN "dit" ELSE "dah", squeeze_memory |-> TRUE]
  ELSE IF sm /\ (dit \/ dah)
    THEN [element |-> IF dit THEN (IF lwd THEN "dah" ELSE "dit")
                             ELSE (IF ~lwd THEN "dit" ELSE "dah"),
          squeeze_memory |-> FALSE]
  ELSE IF ~dit /\ ~dah
    THEN [element |-> "none", squeeze_memory |-> FALSE]
  ELSE IF dit
    THEN [element |-> "dit", squeeze_memory |-> sm]
  ELSE [element |-> "dah", squeeze_memory |-> sm]

\* keyer.py 43-50 start()
IKStart ==
  /\ keyer = "IambicKeyer"
  /\ ~ik_running
  /\ ik_pc = "off"
  /\ ik_running' = TRUE
  /\ ik_pc' = "poll"
  /\ UNCHANGED <<ik_dit_pressed, ik_dah_pressed, ik_last_was_dit,
                 ik_squeeze_memory, ik_queue, ik_is_dit, ik_sleep, ik_updates,
                 ik_held>>
  /\ UNCHANGED <<keyer, skVars, smdVars, txVars, mdVars, restVars>>

\* keyer.py 52-60 stop(): the flag is cleared; the join waits for IKExit
IKStop ==
  /\ keyer = "IambicKeyer"
  /\ ik_running
  /\ ik_running' = FALSE
  /\ UNCHANGED <<ik_dit_pressed, ik_dah_pressed, ik_last_was_dit,
                 ik_squeeze_memory, ik_queue, ik_pc, ik_is_dit, ik_sleep,
                 ik_updates, ik_held>>
  /\ UNCHANGED <<keyer, skVars, smdVars, txVars, mdVars, restVars>>

\* keyer.py 62-72 update_paddle_state(dit_pressed, dah_pressed)
IKUpdatePaddleState(dit, dah) ==
  /\ keyer = "IambicKeyer"
  /\ ik_updates < MaxUpdates
  /\ ik_updates' = ik_updates + 1
  /\ ik_dit_pressed' = dit
  /\ ik_dah_pressed' = dah
  /\ ik_held' = (ik_held /\ dit /\ dah)
  /\ UNCHANGED <<ik_running, ik_last_was_dit, ik_squeeze_memory, ik_queue,
                 ik_pc, ik_is_dit, ik_sleep>>
  /\ UNCHANGED <<keyer, skVars, smdVars, txVars, mdVars, restVars>>

\* a sleep that leaves out the inter-element space
SleepElementOnly(duration) == duration

\* keyer.py 119-120: the loop sleeps for the element and one dit of space
SleepDits(duration) == duration + 1

\* keyer.py 99-120, 124-126: one pass of the loop up to its sleep
IKPoll ==
  LET g == GetNextElementModeB(ik_dit_pressed, ik_dah_pressed,
                               ik_last_was_dit, ik_squeeze_memory)
      is_dit == g.element = "dit"
      duration == IF is_dit THEN 1 ELSE 3
  IN  /\ keyer = "IambicKeyer"
      /\ ik_pc = "poll"
      /\ ik_running
      /\ ik_squeeze_memory' = g.squeeze_memory
      /\ IF g.element # "none"
           THEN /\ ik_queue' = Put(ik_queue, [is_dit |-> is_dit, duration |-> duration])
                /\ ik_pc' = "sleep"
                /\ ik_is_dit' = is_dit
                /\ ik_sleep' = SleepDits(duration)
                /\ ik_held' = (ik_dit_pressed /\ ik_dah_pressed)
           ELSE UNCHANGED <<ik_queue, ik_pc, ik_is_dit, ik_sleep, ik_held>>
      /\ UNCHANGED <<ik_running, ik_dit_pressed, ik_dah_pressed,
                     ik_last_was_dit, ik_updates>>
      /\ UNCHANGED <<keyer, skVars, smdVars, txVars, mdVars, restVars>>

\* keyer.py 120-123: the sleep is over, the alternation is recorded
IKWake ==
  /\ keyer = "IambicKeyer"
  /\ ik_pc = "sleep"
  /\ ik_sleep = 0
  /\ ik_last_was_dit' = ik_is_dit
  /\ ik_pc' = "poll"
  /\ UNCHANGED <<ik_running, ik_dit_pressed, ik_dah_pressed, ik_squeeze_memory,
                 ik_queue, ik_is_dit, ik_sleep, ik_updates, ik_held>>
  /\ UNCHANGED <<keyer, skVars, smdVars, txVars, mdVars, restVars>>

\* keyer.py 99: the loop finds _running cleared and ends
IKExit ==
  /\ keyer = "IambicKeyer"
  /\ ik_pc = "poll"
  /\ ~ik_running
  /\ ik_pc' = "off"
  /\ UNCHANGED <<ik_running, ik_dit_pressed, ik_dah_pressed, ik_last_was_dit,
                 ik_squeeze_memory, ik_queue, ik_is_dit, ik_sleep, ik_updates,
                 ik_held>>
  /\ UNCHANGED <<keyer, skVars, smdVars, txVars, mdVars, restVars>>

\* one dit of time passes while the loop sleeps
IKAdvance ==
  /\ keyer = "IambicKeyer"
  /\ ik_pc = "sleep"
  /\ ik_sleep > 0
  /\ ik_sleep' = ik_sleep - 1
  /\ UNCHANGED <<ik_running, ik_dit_pressed, ik_dah_pressed, ik_last_was_dit,
                 ik_squeeze_memory, ik_queue, ik_pc, ik_is_dit, ik_updates,
                 ik_held>>
  /\ UNCHANGED <<keyer, skVars, smdVars, txVars, mdVars, restVars>>

IKNext ==
  \/ IKStart
  \/ IKStop
  \/ \E dit \in BOOLEAN, dah \in BOOLEAN : IKUpdatePaddleState(dit, dah)
  \/ IKPoll
  \/ IKWake
  \/ IKExit
  \/ IKAdvance

-----------------------------------------------------------------------------
(* SpaceMarkKeyer: (space, mark) pairs on a queue.  Time is counted in dits;
   the loop thread (_keyer_loop) runs one statement of _update at a time
   where the statement reads or writes state another thread can touch. *)

NoTimer == -1
DIT == 0
DAH == 1
PaddleTypes == {"straight", "dual", "iambic_a", "iambic_b", "single"}
Iambic == {"iambic_a", "iambic_b", "single"}
Free == [phase |-> "free", rem |-> 0]
TimerIds == 1..MaxTimers
Min(a, b) == IF a < b THEN a ELSE b

\* keyer.py 201-236 __init__ with config.paddle_type = pt
SKInitAt(pt) ==
  /\ paddle_type = pt
  /\ running = FALSE
  /\ dit_pressed = FALSE
  /\ dah_pressed = FALSE
  /\ state = "IDLE"
  /\ cur_paddle = DIT
  /\ paddle_memory = <<FALSE, FALSE>>
  /\ timer = NoTimer
  /\ timeout_timer = 0
  /\ timeout_threads = [i \in TimerIds |-> Free]
  /\ pair_queue = << >>
  /\ bug_dit_mode = 0
  /\ straight_sending = FALSE
  /\ straight_space_time = 0
  /\ elapsed = 0
  /\ lp = "off"
  /\ lp_i = 1
  /\ updates = 0
  /\ sq_held = FALSE
  /\ rel_type = "none"
  /\ rel_marks = 0
  /\ stop_pc = "none"
  /\ stops = 0

\* the contact of paddle p
Pressed(p) == IF p = DIT THEN dit_pressed ELSE dah_pressed
\* the paddle a mark of the given length was made for
MarkType(mark) == IF mark = 1 THEN "dit" ELSE "dah"
\* the paddle of the mark generated last
LastMark == MarkType(pair_queue[Len(pair_queue)].mark)
\* keyer.py 444-455 _start_timer(duration): no second timer is started
StartTimer(duration) == IF timer # NoTimer THEN timer ELSE duration

\* keyer.py 492-496 _cancel_timeout(): the threads afterwards
CancelTimeout(threads, handle) ==
  IF handle # 0 /\ threads[handle].phase = "wait"
    THEN [threads EXCEPT ![handle] = Free]
    ELSE threads

\* _reset_timeout that cancels the pending timer and starts none
ResetWithoutTimer(threads, handle) ==
  [threads |-> CancelTimeout(threads, handle), handle |-> 0]

\* keyer.py 474-483 _reset_timeout(): the pending timer is cancelled (a
\* callback already running is not stopped by cancel()) and a new one is
\* started for 5 s; [threads, handle] afterwards
ResetTimeout(threads, handle) ==
  LET cancelled == CancelTimeout(threads, handle)
      id == CHOOSE i \in TimerIds :
              /\ cancelled[i] = Free
              /\ \A j \in TimerIds : cancelled[j] = Free => i <= j
  IN  [threads |-> [cancelled EXCEPT ![id] = [phase |-> "wait", rem |-> TimeoutDits]],
       handle |-> id]

\* a thread slot is left for the timer _reset_timeout starts
CanReset(threads, handle) ==
  \E i \in TimerIds : threads[i] = Free \/ (i = handle /\ threads[i].phase = "wait")

\* keyer.py 353-363, 381-383: the tick under way has read a contact for the
\* memory refresh or for the first selection check, and a check is to come
TickHasRead ==
  \/ lp = "select" /\ lp_i = 2
  \/ lp = "swap" /\ lp_i = 1
  \/ lp = "select" /\ lp_i = 1 /\ paddle_type = "iambic_b" /\ state = "INTER_ELEMENT"

\* keyer.py 238-246 start()
SKStart ==
  /\ keyer = "SpaceMarkKeyer"
  /\ ~running
  /\ stop_pc = "none"
  /\ running' = TRUE
  /\ elapsed' = 0
  /\ lp' = "top"
  /\ UNCHANGED <<paddle_type, dit_pressed, dah_pressed, state, cur_paddle,
                 paddle_memory, timer, timeout_timer, timeout_threads,
                 pair_queue, bug_dit_mode, straight_sending,
                 straight_space_time, lp_i, updates, sq_held,
                 rel_type, rel_marks>>
  /\ mark_gap' = 0
  /\ UNCHANGED <<keyer, stopVars, ikVars, smdVars, txVars, mdVars, raceVars,
                 cwVars, piVars, lifeVars, wpmVars, dah_keyed, snap_stale, owed>>

\* keyer.py 275-287: a press sets the memory of its paddle
Latch(memory, dit_edge, dah_edge) ==
  <<memory[1] \/ dit_edge, memory[2] \/ dah_edge>>

\* a press of paddle p comes while the iambic keyer is idle, or during the
\* mark of the other paddle
LatchCase(p) ==
  /\ paddle_type \in {"iambic_a", "iambic_b"}
  /\ \/ state = "IDLE"
     \/ state = "MARK" /\ LastMark # (IF p = DIT THEN "dit" ELSE "dah")

\* keyer.py 261-289 update_paddle_state(dit, dah), under the state lock
SKUpdatePaddleState(dit, dah) ==
  LET dit_edge == ~dit_pressed /\ dit
      dah_edge == ~dah_pressed /\ dah
      reset == ResetTimeout(timeout_threads, timeout_timer)
      released == dit_pressed /\ dah_pressed /\ ~dit /\ ~dah
  IN  /\ keyer = "SpaceMarkKeyer"
      /\ updates < MaxUpdates
      /\ (dit_edge \/ dah_edge) => CanReset(timeout_threads, timeout_timer)
      /\ updates' = updates + 1
      /\ cur_paddle' = IF paddle_type # "iambic_a" THEN cur_paddle
                       ELSE IF dah_edge THEN DAH
                       ELSE IF dit_edge THEN DIT
                       ELSE cur_paddle
      /\ paddle_memory' = Latch(paddle_memory, dit_edge, dah_edge)
      /\ owed' = <<owed[1] \/ (dit_edge /\ LatchCase(DIT)),
                   owed[2] \/ (dah_edge /\ LatchCase(DAH))>>
      /\ IF dit_edge \/ dah_edge
           THEN /\ timeout_threads' = reset.threads
                /\ timeout_timer' = reset.handle
           ELSE UNCHANGED <<timeout_threads, timeout_timer>>
      /\ dit_pressed' = dit
      /\ dah_pressed' = dah
      /\ sq_held' = (sq_held /\ dit /\ dah)
      /\ IF released /\ state = "MARK" /\ timer > 0
           THEN /\ rel_type' = LastMark
                /\ rel_marks' = 0
           ELSE IF dit \/ dah
             THEN rel_type' = "none" /\ rel_marks' = 0
             ELSE UNCHANGED <<rel_type, rel_marks>>
      /\ UNCHANGED <<paddle_type, running, state, timer, pair_queue,
                     bug_dit_mode, straight_sending, straight_space_time,
                     elapsed, lp, lp_i>>
      /\ snap_stale' =
           (snap_stale \/ (TickHasRead /\ <<dit, dah>> # <<dit_pressed, dah_pressed>>))
      /\ UNCHANGED <<keyer, stopVars, ikVars, smdVars, txVars, mdVars, raceVars,
                     cwVars, piVars, lifeVars, wpmVars, dah_keyed, mark_gap>>

\* keyer.py 457-460 _timer_expired(): the timer's time is up
SKTimerExpired ==
  /\ keyer = "SpaceMarkKeyer"
  /\ timer = 0
  /\ timer' = NoTimer
  /\ UNCHANGED <<paddle_type, running, dit_pressed, dah_pressed, state,
                 cur_paddle, paddle_memory, timeout_timer, timeout_threads,
                 pair_queue, bug_dit_mode, straight_sending,
                 straight_space_time, elapsed, lp, lp_i, updates,
                 sq_held, rel_type, rel_marks>>
  /\ mark_gap' = IF paddle_type \in Iambic /\ state = "MARK" THEN 0 ELSE mark_gap
  /\ UNCHANGED <<keyer, stopVars, ikVars, smdVars, txVars, mdVars, raceVars,
                 cwVars, piVars, lifeVars, wpmVars, dah_keyed, snap_stale, owed>>

\* threading.Timer: the 5 s are over and the callback is called; cancel()
\* has no effect from here on
SKTimeoutFire(id) ==
  /\ keyer = "SpaceMarkKeyer"
  /\ timeout_threads[id] = [phase |-> "wait", rem |-> 0]
  /\ timeout_threads' = [timeout_threads EXCEPT ![id].phase = "fired"]
  /\ UNCHANGED <<paddle_type, running, dit_pressed, dah_pressed, state,
                 cur_paddle, paddle_memory, timer, timeout_timer, pair_queue,
                 bug_dit_mode, straight_sending, straight_space_time, elapsed,
                 lp, lp_i, updates, sq_held, rel_type, rel_marks>>
  /\ UNCHANGED <<keyer, stopVars, ikVars, smdVars, txVars, mdVars, restVars>>

\* keyer.py 485-489 _timeout_expired(): the contacts are cleared under the lock
SKTimeoutExpired(id) ==
  /\ keyer = "SpaceMarkKeyer"
  /\ timeout_threads[id].phase = "fired"
  /\ dit_pressed' = FALSE
  /\ dah_pressed' = FALSE
  /\ timeout_threads' = [timeout_threads EXCEPT ![id].phase = "cleared"]
  /\ sq_held' = FALSE
  /\ UNCHANGED <<paddle_type, running, state, cur_paddle, paddle_memory,
                 timer, timeout_timer, pair_queue, bug_dit_mode,
                 straight_sending, straight_space_time, elapsed, lp, lp_i,
                 updates, rel_type, rel_marks>>
  /\ snap_stale' = (snap_stale \/ (TickHasRead /\ (dit_pressed \/ dah_pressed)))
  /\ UNCHANGED <<keyer, stopVars, ikVars, smdVars, txVars, mdVars, raceVars,
                 cwVars, piVars, lifeVars, wpmVars, dah_keyed, mark_gap, owed>>

\* keyer.py 490: _timeout_expired() drops the handle, outside the lock
SKTimeoutUnset(id) ==
  /\ keyer = "SpaceMarkKeyer"
  /\ timeout_threads[id].phase = "cleared"
  /\ timeout_timer' = 0
  /\ timeout_threads' = [timeout_threads EXCEPT ![id] = Free]
  /\ UNCHANGED <<paddle_type, running, dit_pressed, dah_pressed, state,
                 cur_paddle, paddle_memory, timer, pair_queue, bug_dit_mode,
                 straight_sending, straight_space_time, elapsed, lp, lp_i,
                 updates, sq_held, rel_type, rel_marks>>
  /\ UNCHANGED <<keyer, stopVars, ikVars, smdVars, txVars, mdVars, restVars>>

\* a check that never sees the timer
TimerNeverSeen == FALSE

\* keyer.py 462-465 _is_timer_running()
IsTimerRunning == timer # NoTimer

\* keyer.py 331-338: an iambic tick that finds no timer running goes on
SKTickBegin ==
  /\ keyer = "SpaceMarkKeyer"
  /\ lp = "top"
  /\ running
  /\ paddle_type \in Iambic
  /\ ~IsTimerRunning
  /\ lp' = "act"
  /\ UNCHANGED <<paddle_type, running, dit_pressed, dah_pressed, state,
                 cur_paddle, paddle_memory, timer, timeout_timer,
                 timeout_threads, pair_queue, bug_dit_mode, straight_sending,
                 straight_space_time, elapsed, lp_i, updates,
                 sq_held, rel_type, rel_marks>>
  /\ snap_stale' = FALSE
  /\ UNCHANGED <<keyer, stopVars, ikVars, smdVars, txVars, mdVars, raceVars,
                 cwVars, piVars, lifeVars, wpmVars, dah_keyed, mark_gap, owed>>

\* keyer.py 343-347: the mark is over, the inter-element space begins
SKTickMarkDone ==
  /\ keyer = "SpaceMarkKeyer"
  /\ lp = "act"
  /\ state = "MARK"
  /\ state' = "INTER_ELEMENT"
  /\ elapsed' = 0
  /\ timer' = StartTimer(1)
  /\ lp' = "top"
  /\ UNCHANGED <<paddle_type, running, dit_pressed, dah_pressed, cur_paddle,
                 paddle_memory, timeout_timer, timeout_threads, pair_queue,
                 bug_dit_mode, straight_sending, straight_space_time, lp_i,
                 updates, sq_held, rel_type, rel_marks>>
  /\ UNCHANGED <<keyer, stopVars, ikVars, smdVars, txVars, mdVars, restVars>>

\* a Mode B that keeps the memory through the inter-element space
KeepMemory(memory, cur, pressed) == memory

\* keyer.py 353: the memory of the current paddle becomes its contact
RefreshMemory(memory, cur, pressed) == [memory EXCEPT ![cur + 1] = pressed]

\* keyer.py 349-356: Mode B refreshes the memory after an inter-element space
SKTickRefresh ==
  /\ keyer = "SpaceMarkKeyer"
  /\ lp = "act"
  /\ state # "MARK"
  /\ paddle_memory' =
       IF paddle_type = "iambic_b" /\ state = "INTER_ELEMENT"
         THEN RefreshMemory(paddle_memory, cur_paddle, Pressed(cur_paddle))
         ELSE paddle_memory
  /\ lp' = "select"
  /\ lp_i' = 1
  /\ UNCHANGED <<paddle_type, running, dit_pressed, dah_pressed, state,
                 cur_paddle, timer, timeout_timer, timeout_threads,
                 pair_queue, bug_dit_mode, straight_sending,
                 straight_space_time, elapsed, updates, sq_held,
                 rel_type, rel_marks>>
  /\ UNCHANGED <<keyer, stopVars, ikVars, smdVars, txVars, mdVars, restVars>>

\* keyer.py 356-363, 385-387: one pass of the selection loop up to its test
SKTickSelect ==
  LET cur == IF paddle_type # "iambic_a" THEN 1 - cur_paddle ELSE cur_paddle
      hit == paddle_memory[cur + 1] \/ Pressed(cur)
  IN  /\ keyer = "SpaceMarkKeyer"
      /\ lp = "select"
      /\ cur_paddle' = cur
      /\ IF hit
           THEN /\ lp' = IF paddle_type = "iambic_a" THEN "clear" ELSE "generate"
                /\ UNCHANGED <<lp_i, state>>
           ELSE IF paddle_type = "iambic_a"
             THEN lp' = "swap" /\ UNCHANGED <<lp_i, state>>
           ELSE IF lp_i = 1
             THEN lp' = "select" /\ lp_i' = 2 /\ UNCHANGED state
           ELSE lp' = "top" /\ lp_i' = 1 /\ state' = "IDLE"
      /\ UNCHANGED <<paddle_type, running, dit_pressed, dah_pressed,
                     paddle_memory, timer, timeout_timer, timeout_threads,
                     pair_queue, bug_dit_mode, straight_sending,
                     straight_space_time, elapsed, updates, sq_held,
                     rel_type, rel_marks>>
      /\ UNCHANGED <<keyer, stopVars, ikVars, smdVars, txVars, mdVars, restVars>>

\* keyer.py 365-366: Mode A clears the memory it uses
SKTickClear ==
  /\ keyer = "SpaceMarkKeyer"
  /\ lp = "clear"
  /\ paddle_memory' = [paddle_memory EXCEPT ![cur_paddle + 1] = FALSE]
  /\ lp' = "generate"
  /\ UNCHANGED <<paddle_type, running, dit_pressed, dah_pressed, state,
                 cur_paddle, timer, timeout_timer, timeout_threads,
                 pair_queue, bug_dit_mode, straight_sending,
                 straight_space_time, elapsed, lp_i, updates,
                 sq_held, rel_type, rel_marks>>
  /\ UNCHANGED <<keyer, stopVars, ikVars, smdVars, txVars, mdVars, restVars>>

\* a mark of one dit length whatever the paddle
MarkAlwaysDit(paddle) == 1

\* keyer.py 369: mark_duration, in dits, for the current paddle
MarkDuration(paddle) == IF paddle = DIT THEN 1 ELSE 3

\* keyer.py 369-379: the mark is generated and its pair queued
SKTickGenerate ==
  LET mark_duration == MarkDuration(cur_paddle)
  IN  /\ keyer = "SpaceMarkKeyer"
      /\ lp = "generate"
      /\ state' = "MARK"
      /\ pair_queue' = Put(pair_queue, [space |-> elapsed, mark |-> mark_duration])
      /\ elapsed' = 0
      /\ timer' = StartTimer(mark_duration)
      /\ lp' = "top"
      /\ lp_i' = 1
      /\ sq_held' = (dit_pressed /\ dah_pressed)
      /\ rel_marks' = IF rel_type = "none" THEN rel_marks
                      ELSE Min(rel_marks + 1, 2)
      /\ UNCHANGED <<paddle_type, running, dit_pressed, dah_pressed,
                     cur_paddle, paddle_memory, timeout_timer,
                     timeout_threads, bug_dit_mode, straight_sending,
                     straight_space_time, updates, rel_type>>
      /\ owed' = [owed EXCEPT ![cur_paddle + 1] = FALSE]
      /\ UNCHANGED <<keyer, stopVars, ikVars, smdVars, txVars, mdVars, raceVars,
                     cwVars, piVars, lifeVars, wpmVars, dah_keyed, snap_stale,
                     mark_gap>>

\* keyer.py 381-387: Mode A looks at the other paddle
SKTickSwap ==
  /\ keyer = "SpaceMarkKeyer"
  /\ lp = "swap"
  /\ cur_paddle' = 1 - cur_paddle
  /\ IF lp_i = 1
       THEN lp' = "select" /\ lp_i' = 2 /\ UNCHANGED state
       ELSE lp' = "top" /\ lp_i' = 1 /\ state' = "IDLE"
  /\ UNCHANGED <<paddle_type, running, dit_pressed, dah_pressed,
                 paddle_memory, timer, timeout_timer, timeout_threads,
                 pair_queue, bug_dit_mode, straight_sending,
                 straight_space_time, elapsed, updates, sq_held,
                 rel_type, rel_marks>>
  /\ UNCHANGED <<keyer, stopVars, ikVars, smdVars, txVars, mdVars, restVars>>

\* a key that queues a pair when it closes as well as when it opens
KeyChangeEitherWay(pressed) ==
  /\ straight_sending' = pressed
  /\ elapsed' = 0
  /\ pair_queue' = Put(pair_queue, [space |-> straight_space_time,
                                     mark |-> elapsed])
  /\ straight_space_time' = IF pressed THEN elapsed ELSE straight_space_time

\* keyer.py 394-404 and 432-442: the key changes between open and closed
KeyChange(pressed) ==
  /\ straight_sending' = pressed
  /\ elapsed' = 0
  /\ IF pressed
       THEN straight_space_time' = elapsed /\ UNCHANGED pair_queue
       ELSE /\ pair_queue' = Put(pair_queue, [space |-> straight_space_time,
                                              mark |-> elapsed])
            /\ UNCHANGED straight_space_time

\* keyer.py 389-404 _update_straight_key()
SKTickStraight ==
  LET pressed == dit_pressed \/ dah_pressed
  IN  /\ keyer = "SpaceMarkKeyer"
      /\ lp = "top"
      /\ running
      /\ paddle_type = "straight"
      /\ pressed # straight_sending
      /\ KeyChange(pressed)
      /\ UNCHANGED <<paddle_type, running, dit_pressed, dah_pressed, state,
                     cur_paddle, paddle_memory, timer, timeout_timer,
                     timeout_threads, bug_dit_mode, lp, lp_i, updates, sq_held, rel_type, rel_marks>>
      /\ UNCHANGED <<keyer, stopVars, ikVars, smdVars, txVars, mdVars, restVars>>

\* keyer.py 417-428: _bug_dit_mode after the automatic-dit step
BugDitMode ==
  IF ~dit_pressed THEN 0
  ELSE IF timer = NoTimer THEN (IF bug_dit_mode = 1 THEN 2 ELSE 1)
  ELSE IF bug_dit_mode = 0 THEN 1
  ELSE bug_dit_mode

\* keyer.py 406-442 _update_bug(dit_length)
SKTickBug ==
  LET auto_pressed == BugDitMode = 1 \/ dah_pressed
  IN  /\ keyer = "SpaceMarkKeyer"
      /\ lp = "top"
      /\ running
      /\ paddle_type = "dual"
      /\ bug_dit_mode' = BugDitMode
      /\ timer' = IF dit_pressed THEN StartTimer(1) ELSE timer
      /\ IF auto_pressed # straight_sending
           THEN KeyChange(auto_pressed)
           ELSE UNCHANGED <<straight_sending, elapsed, straight_space_time,
                            pair_queue>>
      /\ UNCHANGED <<paddle_type, running, dit_pressed, dah_pressed, state,
                     cur_paddle, paddle_memory, timeout_timer,
                     timeout_threads, lp, lp_i, updates, sq_held,
                     rel_type, rel_marks>>
      /\ dah_keyed' = IF ~auto_pressed THEN FALSE
                      ELSE IF straight_sending THEN dah_keyed \/ dah_pressed
                      ELSE dah_pressed
      /\ UNCHANGED <<keyer, stopVars, ikVars, smdVars, txVars, mdVars, raceVars,
                     cwVars, piVars, lifeVars, wpmVars, snap_stale, mark_gap, owed>>

\* a tick of the loop would change nothing
TickIdle ==
  CASE paddle_type = "straight" -> (dit_pressed \/ dah_pressed) = straight_sending
    [] paddle_type = "dual" ->
         /\ BugDitMode = bug_dit_mode
         /\ dit_pressed => timer # NoTimer
         /\ (BugDitMode = 1 \/ dah_pressed) = straight_sending
    [] OTHER ->
         \/ timer # NoTimer
         \/ /\ state = "IDLE"
            /\ ~dit_pressed /\ ~dah_pressed
            /\ paddle_memory = <<FALSE, FALSE>>

\* one dit of time passes: no callback is due and the
\* loop, which ticks every millisecond, has nothing to do
SKAdvance ==
  /\ keyer = "SpaceMarkKeyer"
  /\ timer # 0
  /\ \A i \in TimerIds :
       \/ timeout_threads[i] = Free
       \/ timeout_threads[i].phase = "wait" /\ timeout_threads[i].rem > 0
  /\ stop_pc = "none"
  /\ lp \in {"off", "top"}
  /\ lp = "top" => running /\ TickIdle
  /\ timer' = IF timer = NoTimer THEN NoTimer ELSE timer - 1
  /\ timeout_threads' =
       [i \in TimerIds |->
          IF timeout_threads[i].phase = "wait"
            THEN [timeout_threads[i] EXCEPT !.rem = @ - 1]
            ELSE timeout_threads[i]]
  /\ elapsed' = Min(elapsed + 1, MaxElapsed)
  /\ UNCHANGED <<paddle_type, running, dit_pressed, dah_pressed, state,
                 cur_paddle, paddle_memory, timeout_timer, pair_queue,
                 bug_dit_mode, straight_sending, straight_space_time, lp,
                 lp_i, updates, sq_held, rel_type, rel_marks>>
  /\ mark_gap' = Min(mark_gap + 1, MaxElapsed)
  /\ UNCHANGED <<keyer, stopVars, ikVars, smdVars, txVars, mdVars, raceVars,
                 cwVars, piVars, lifeVars, wpmVars, dah_keyed, snap_stale, owed>>

\* the loop thread
SKLoop ==
  \/ SKTickBegin
  \/ SKTickMarkDone
  \/ SKTickRefresh
  \/ SKTickSelect
  \/ SKTickClear
  \/ SKTickGenerate
  \/ SKTickSwap
  \/ SKTickStraight
  \/ SKTickBug

\* the timer threads
SKTimers ==
  \/ SKTimerExpired
  \/ \E id \in TimerIds : SKTimeoutFire(id)
  \/ \E id \in TimerIds : SKTimeoutExpired(id)
  \/ \E id \in TimerIds : SKTimeoutUnset(id)

SKUpdates == \E dit \in BOOLEAN, dah \in BOOLEAN : SKUpdatePaddleState(dit, dah)

SKNext ==
  \/ SKStart
  \/ SKUpdates
  \/ SKLoop
  \/ SKTimers
  \/ SKAdvance

\* keyer.py 248-253 stop(): the flag is cleared
SKStop ==
  /\ keyer = "SpaceMarkKeyer"
  /\ running
  /\ stop_pc = "none"
  /\ stops < MaxStops
  /\ running' = FALSE
  /\ stop_pc' = "cancel_timer"
  /\ stops' = stops + 1
  /\ UNCHANGED <<paddle_type, dit_pressed, dah_pressed, state, cur_paddle,
                 paddle_memory, timer, timeout_timer, timeout_threads,
                 pair_queue, bug_dit_mode, straight_sending,
                 straight_space_time, elapsed, lp, lp_i, updates, sq_held,
                 rel_type, rel_marks>>
  /\ UNCHANGED <<keyer, ikVars, smdVars, txVars, mdVars, restVars>>

\* keyer.py 254, 467-472: stop() calls _cancel_timer()
SKStopCancelTimer ==
  /\ keyer = "SpaceMarkKeyer"
  /\ stop_pc = "cancel_timer"
  /\ timer' = NoTimer
  /\ stop_pc' = "cancel_timeout"
  /\ UNCHANGED <<paddle_type, running, dit_pressed, dah_pressed, state,
                 cur_paddle, paddle_memory, timeout_timer, timeout_threads,
                 pair_queue, bug_dit_mode, straight_sending,
                 straight_space_time, elapsed, lp, lp_i, updates, sq_held,
                 rel_type, rel_marks, stops>>
  /\ UNCHANGED <<keyer, ikVars, smdVars, txVars, mdVars, restVars>>

\* keyer.py 255, 492-496: stop() calls _cancel_timeout()
SKStopCancelTimeout ==
  /\ keyer = "SpaceMarkKeyer"
  /\ stop_pc = "cancel_timeout"
  /\ timeout_threads' = CancelTimeout(timeout_threads, timeout_timer)
  /\ timeout_timer' = 0
  /\ stop_pc' = "join"
  /\ UNCHANGED <<paddle_type, running, dit_pressed, dah_pressed, state,
                 cur_paddle, paddle_memory, timer, pair_queue, bug_dit_mode,
                 straight_sending, straight_space_time, elapsed, lp, lp_i,
                 updates, sq_held, rel_type, rel_marks, stops>>
  /\ UNCHANGED <<keyer, ikVars, smdVars, txVars, mdVars, restVars>>

\* keyer.py 257-259: the loop thread has ended, join() and stop() return
SKStopJoin ==
  /\ keyer = "SpaceMarkKeyer"
  /\ stop_pc = "join"
  /\ lp = "off"
  /\ stop_pc' = "none"
  /\ UNCHANGED <<paddle_type, running, dit_pressed, dah_pressed, state,
                 cur_paddle, paddle_memory, timer, timeout_timer,
                 timeout_threads, pair_queue, bug_dit_mode, straight_sending,
                 straight_space_time, elapsed, lp, lp_i, updates, sq_held,
                 rel_type, rel_marks, stops>>
  /\ UNCHANGED <<keyer, ikVars, smdVars, txVars, mdVars, restVars>>

\* keyer.py 312: the loop finds _running cleared and ends
SKExit ==
  /\ keyer = "SpaceMarkKeyer"
  /\ lp = "top"
  /\ ~running
  /\ lp' = "off"
  /\ UNCHANGED <<paddle_type, running, dit_pressed, dah_pressed, state,
                 cur_paddle, paddle_memory, timer, timeout_timer,
                 timeout_threads, pair_queue, bug_dit_mode, straight_sending,
                 straight_space_time, elapsed, lp_i, updates, sq_held,
                 rel_type, rel_marks>>
  /\ UNCHANGED <<keyer, stopVars, ikVars, smdVars, txVars, mdVars, restVars>>

\* the calls of stop() and the end of the loop thread
SKStopping ==
  \/ SKStop
  \/ SKStopCancelTimer
  \/ SKStopCancelTimeout
  \/ SKStopJoin
  \/ SKExit

\* no keyer is constructed
NoKeyer == keyer = "none" /\ IKInit /\ SKInitAt("iambic_b")

-----------------------------------------------------------------------------
(* MorseDecoder: the gap decoder *)

NoTime == -1

\* config.py 26: dit_duration, 0.06 s
DitMs == 60
\* config.py 30: char_space_threshold
CharSpaceThreshold == 3
\* config.py 31: word_space_threshold
WordSpaceThreshold == 7
\* config.py 71-79: char_space_duration and word_space_duration, ms
CharSpaceDuration == DitMs * CharSpaceThreshold
WordSpaceDuration == DitMs * WordSpaceThreshold

\* decoder.py 93-95 CWElement.to_morse
ToMorse(is_dit) == IF is_dit THEN "." ELSE "-"

\* decoder.py 269-270: the table character, or the pattern in brackets
PatternChar(pattern) ==
  IF pattern \in MorsePatterns
    THEN <<MorseGet(pattern)>>
    ELSE <<"<">> \o pattern \o <<">">>

\* a flush that decodes the pattern without its last symbol
MDFlushDropsLast(pattern) ==
  IF Len(pattern) <= 1 THEN << >>
  ELSE PatternChar(SubSeq(pattern, 1, Len(pattern) - 1))

\* decoder.py 259-272 MorseDecoder._flush_character: the value returned
\* (the pattern is emptied by the caller's action)
MDFlushCharacter(pattern) ==
  IF pattern = << >> THEN << >> ELSE PatternChar(pattern)

\* Gap measured from the end of a dit instead of the last timestamp
GapLessDit(timestamp, last) == timestamp - last - DitMs

\* decoder.py 216: gap = element.timestamp - self._last_element_time
Gap(timestamp, last) == timestamp - last

\* decoder.py 186-196 __init__, and the caller's clock at 0
MDIdle ==
  /\ current_char = << >>
  /\ last_element_time = NoTime
  /\ md_ret = << >>
  /\ md_op = "init"
  /\ md_now = 0
  /\ md_last_end = 0
  /\ md_run = << >>
  /\ md_count = 0

\* silences (ms) between the end of one element and the start of the next
Silences == {60, 120, 180, 420}
\* how long (ms) the caller waits before flush()
FlushWaits == {60, 180}

\* decoder.py 198-235 process_element(element): the element starts `silence`
\* after the previous one ended and lasts 1 dit (dit) or 3 dits (dah)
ProcessElement(is_dit, silence) ==
  LET timestamp == md_last_end + silence
      duration == IF is_dit THEN DitMs ELSE 3 * DitMs
      gap == Gap(timestamp, last_element_time)
  IN  /\ md_count < MaxElements
      /\ timestamp >= md_now
      /\ md_count' = md_count + 1
      /\ md_op' = "process"
      /\ md_now' = timestamp + duration
      /\ md_last_end' = timestamp + duration
      /\ md_run' = IF silence >= CharSpaceDuration
                     THEN <<ToMorse(is_dit)>>
                     ELSE Append(md_run, ToMorse(is_dit))
      /\ last_element_time' = timestamp
      /\ IF last_element_time # NoTime /\ gap >= WordSpaceDuration
           THEN /\ md_ret' = MDFlushCharacter(current_char) \o <<" ">>
                /\ current_char' = <<ToMorse(is_dit)>>
           ELSE IF last_element_time # NoTime /\ gap >= CharSpaceDuration
             THEN /\ md_ret' = MDFlushCharacter(current_char)
                  /\ current_char' = <<ToMorse(is_dit)>>
             ELSE /\ md_ret' = << >>
                  /\ current_char' = Append(current_char, ToMorse(is_dit))
      /\ UNCHANGED <<smdVars, txVars, keyerVars, restVars>>

\* decoder.py 237-257 flush(current_time), called `wait` after the caller's
\* last call; the caller's clock runs at most one word space past the last
\* element
MDFlush(wait) ==
  /\ md_now + wait <= md_last_end + WordSpaceDuration
  /\ md_now' = md_now + wait
  /\ md_op' = "flush"
  /\ IF last_element_time # NoTime
        /\ (md_now + wait) - last_element_time >= CharSpaceDuration
       THEN /\ md_ret' = MDFlushCharacter(current_char)
            /\ current_char' = << >>
       ELSE /\ md_ret' = << >>
            /\ current_char' = current_char
  /\ UNCHANGED <<last_element_time, md_last_end, md_run, md_count>>
  /\ UNCHANGED <<smdVars, txVars, keyerVars, restVars>>

\* decoder.py 274-277 reset()
MDReset ==
  /\ current_char' = << >>
  /\ last_element_time' = NoTime
  /\ md_op' = "reset"
  /\ md_run' = << >>
  /\ UNCHANGED <<md_ret, md_now, md_last_end, md_count>>
  /\ UNCHANGED <<smdVars, txVars, keyerVars, restVars>>

MDNext ==
  \/ \E is_dit \in BOOLEAN, silence \in Silences : ProcessElement(is_dit, silence)
  \/ \E wait \in FlushWaits : MDFlush(wait)
  \/ MDReset

-----------------------------------------------------------------------------
(* SpaceMarkDecoder *)

\* decoder.py 416-422: one mark moves the index one level down the tree
TreeStep(index, is_dah) == index * 2 + (IF is_dah THEN 1 ELSE 0)

\* TreeChar without the range check: the index wraps around the table
TreeCharWrapped(index) ==
  IF index = 137 THEN "$"
  ELSE IF index = 197 THEN "~"
  ELSE MORSE_TREE[(index % TreeLen) + 1]

\* decoder.py 460-470: the character of a tree index > 1
TreeChar(index) ==
  IF index = 137 THEN "$"
  ELSE IF index = 197 THEN "~"
  ELSE IF index < TreeLen THEN MORSE_TREE[index + 1]
  ELSE "*"

\* a flush that leaves the index where it is
FlushKeepsIndex(mc, text) ==
  IF mc <= 1
    THEN [ret |-> << >>, morse_ch |-> mc, decoded_text |-> text]
    ELSE [ret |-> <<TreeChar(mc)>>, morse_ch |-> mc,
          decoded_text |-> Append(text, TreeChar(mc))]

\* decoder.py 448-474 _flush_character: [ret, morse_ch, decoded_text]
FlushCharacter(mc, text) ==
  IF mc <= 1
    THEN [ret |-> << >>, morse_ch |-> mc, decoded_text |-> text]
    ELSE [ret |-> <<TreeChar(mc)>>, morse_ch |-> 1,
          decoded_text |-> Append(text, TreeChar(mc))]
\* config.py 26 dit_duration (s) * 1000.0 (decoder.py 328): 20 and 15 WPM
DitLengths == {60, 80}
\* space and mark durations (ms) handed to decode_space_mark
Spaces == {70, 170, 250, 500}
Marks == {40, 60, 120, 180}

\* Differ2X with the comparisons made non-strict
Differ2XOrEqual(duration, lm) ==
  \/ RLe(RScale(lm, 2, 1), duration)
  \/ RLe(RScale(duration, 2, 1), lm)

\* decoder.py 426: the new and the previous mark differ by more than 2X
Differ2X(duration, lm) ==
  \/ RLt(RScale(lm, 2, 1), duration)
  \/ RLt(RScale(duration, 2, 1), lm)

\* decoder.py 427: new_dit
NewDit(duration, lm, dl) ==
  RScale(RAdd(RScale(RAdd(lm, duration), 1, 4), dl), 1, 2)

\* EndOfChar with the comparison made non-strict
EndOfCharOrEqual(duration, dl) == RLe(RScale(dl, 2, 1), duration)

\* decoder.py 379: the space ends the character
EndOfChar(duration, dl) == RLt(RScale(dl, 2, 1), duration)

\* decoder.py 383-386: the space is an inter-word space
IsWordSpace(duration, cs) ==
  \/ RLe(RScale(RScale(cs, 1, 3), 11, 2), duration)
  \/ RLe(RInt(3000), duration)

\* an adaptation that weighs the space the same on both sides
AdaptCharSpaceEvenly(duration, cs) ==
  RAdd(RScale(cs, 1, 2), RScale(duration, 1, 2))

\* decoder.py 398-403: char_space after an inter-character space
AdaptCharSpace(duration, cs) ==
  IF RLt(duration, cs)
    THEN RAdd(RScale(cs, 1, 2), RScale(duration, 1, 2))
    ELSE RAdd(RScale(cs, 4, 5), RScale(duration, 1, 5))

\* decoder.py 364-407 _decode_space: [ret, char_space, morse_ch, decoded_text]
DecodeSpace(duration, dl, cs, mc, text) ==
  IF EndOfChar(duration, dl)
    THEN LET f == FlushCharacter(mc, text)
         IN  IF IsWordSpace(duration, cs)
               THEN [ret |-> f.ret \o <<" ">>,
                     char_space |-> RScale(cs, 103, 100),
                     morse_ch |-> f.morse_ch, decoded_text |-> f.decoded_text]
               ELSE [ret |-> f.ret,
                     char_space |-> AdaptCharSpace(duration, cs),
                     morse_ch |-> f.morse_ch, decoded_text |-> f.decoded_text]
    ELSE [ret |-> << >>, char_space |-> cs, morse_ch |-> mc,
          decoded_text |-> text]

\* decoder.py 430-432: char_space is raised to 2.5 * dit_length
FloorCharSpace(cs, dl) ==
  IF RLt(cs, RScale(dl, 5, 2)) THEN RScale(dl, 5, 2) ELSE cs

\* decoder.py 409-446 _decode_mark: [dit_length, last_mark, char_space, morse_ch]
DecodeMark(duration, dl, lm, cs, mc) ==
  LET idx == TreeStep(mc, RLt(RScale(dl, 17, 10), duration))
  IN  IF Differ2X(duration, lm)
        THEN [dit_length |-> NewDit(duration, lm, dl), last_mark |-> duration,
              char_space |-> FloorCharSpace(cs, NewDit(duration, lm, dl)),
              morse_ch |-> idx]
        ELSE [dit_length |-> dl, last_mark |-> duration, char_space |-> cs,
              morse_ch |-> idx]

\* decoder.py 317-341 __init__ with config.dit_duration * 1000.0 = d
SMDInitAt(d) ==
  /\ dit_length = RInt(d)
  /\ last_mark = RScale(RInt(d), 6, 5)
  /\ char_space = RScale(RInt(d), 3, 1)
  /\ morse_ch = 1
  /\ decoded_text = << >>
  /\ flush_timer = FALSE
  /\ smd_ret = << >>
  /\ smd_calls = 0

\* decoder.py 343-362 decode_space_mark(space_ms, mark_ms)
DecodeSpaceMark(space_ms, mark_ms) ==
  LET s == DecodeSpace(RInt(space_ms), dit_length, char_space, morse_ch,
                       decoded_text)
      m == DecodeMark(RInt(mark_ms), dit_length, last_mark, s.char_space,
                      s.morse_ch)
  IN  /\ smd_calls < MaxPairs
      /\ s.char_space.d <= MaxDen
      /\ m.dit_length.d <= MaxDen
      /\ smd_calls' = smd_calls + 1
      /\ dit_length' = m.dit_length
      /\ last_mark' = m.last_mark
      /\ char_space' = m.char_space
      /\ morse_ch' = m.morse_ch
      /\ decoded_text' = s.decoded_text
      /\ flush_timer' = TRUE
      /\ smd_ret' = s.ret
      /\ UNCHANGED <<txVars, mdVars, keyerVars, restVars>>

\* decoder.py 476-478 _flush_timer_expired: the armed timer fires
FlushTimerExpired ==
  LET f == FlushCharacter(morse_ch, decoded_text)
  IN  /\ flush_timer
      /\ flush_timer' = FALSE
      /\ morse_ch' = f.morse_ch
      /\ decoded_text' = f.decoded_text
      /\ UNCHANGED <<dit_length, last_mark, char_space, smd_ret, smd_calls>>
      /\ UNCHANGED <<txVars, mdVars, keyerVars, restVars>>

\* decoder.py 549-556 flush()
Flush ==
  LET f == FlushCharacter(morse_ch, decoded_text)
  IN  /\ flush_timer' = FALSE
      /\ morse_ch' = f.morse_ch
      /\ decoded_text' = f.decoded_text
      /\ smd_ret' = f.ret
      /\ UNCHANGED <<dit_length, last_mark, char_space, smd_calls>>
      /\ UNCHANGED <<txVars, mdVars, keyerVars, restVars>>

\* decoder.py 540-547 clear()
Clear ==
  /\ flush_timer' = FALSE
  /\ decoded_text' = << >>
  /\ morse_ch' = 1
  /\ UNCHANGED <<dit_length, last_mark, char_space, smd_ret, smd_calls>>
  /\ UNCHANGED <<txVars, mdVars, keyerVars, restVars>>

\* decoder.py 333-341: no call under way, no callback running
RaceIdle ==
  /\ mt_pc = "idle"
  /\ mt_cont = "idle"
  /\ mt_space = 0
  /\ mt_mark = 0
  /\ mt_ch = ""
  /\ ft_pc = "none"
  /\ ft_ch = ""
  /\ ft_stale = FALSE
  /\ flush_interval = RInt(0)
  /\ pend_ix = 1

\* decoder.py 110-118 CWDecoder.__init__ with auto_wpm = a (config.py 38)
CWInitAt(a) ==
  /\ press_time = [key_type \in BOOLEAN |-> NoTime]
  /\ recent_durations = << >>
  /\ cw_dit_duration = RInt(DitMs)
  /\ cw_auto_wpm = a
  /\ cw_ret = << >>
  /\ cw_event = << >>
  /\ cw_now = 0
  /\ cw_events = 0
  /\ recent_dits = << >>

\* CreatesKeyer leaving out iambic_a
CreatesKeyerModeB(pt) == pt = "iambic_b"

\* paddle.py 72: the paddle types that get a keyer
CreatesKeyer(pt) == pt \in {"iambic_a", "iambic_b"}

\* paddle.py 45-75 PaddleInterface.__init__ with config.paddle_type = pt
PIInitAt(pt) ==
  /\ pi_paddle_type = pt
  /\ pi_keyer = CreatesKeyer(pt)
  /\ pi_running = FALSE
  /\ pi_dit_pressed = FALSE
  /\ pi_dah_pressed = FALSE
  /\ pi_event_queue = << >>
  /\ pi_op = "init"
  /\ pi_ret = "none"
  /\ pi_started = FALSE

\* the loop of the SpaceMarkKeyer has not run
ObsIdle ==
  /\ dah_keyed = FALSE
  /\ snap_stale = FALSE
  /\ mark_gap = 0
  /\ owed = <<FALSE, FALSE>>

\* no client drives start() and stop()
LifeIdle ==
  /\ client = "none"
  /\ st_running = FALSE
  /\ st_pc = "off"
  /\ last_calls = << >>
  /\ loops_made = 0

\* config.py 39: no speed has been set
WpmIdle ==
  /\ target_wpm = 0
  /\ wpm_op = "init"
  /\ wpm_arg = 0
  /\ wpm_ret = 0

MoreIdle == ObsIdle /\ LifeIdle /\ WpmIdle

\* no CWDecoder and no PaddleInterface in use
RestIdle == RaceIdle /\ CWInitAt(TRUE) /\ PIInitAt("straight") /\ MoreIdle

TxIdle ==
  /\ tx_pattern = << >>
  /\ tx_pos = 0
  /\ tx_done = FALSE

SMDNext ==
  \/ \E s \in Spaces, m \in Marks : DecodeSpaceMark(s, m)
  \/ FlushTimerExpired
  \/ Flush
  \/ Clear

\* the adaptive decoder fed arbitrary pairs
DecoderInit ==
  (\E d \in DitLengths : SMDInitAt(d)) /\ TxIdle /\ MDIdle /\ RestIdle /\ NoKeyer

SpecSMD == DecoderInit /\ [][SMDNext]_vars

\* C2 (as claimed): char_space >= 2.5 * dit_length in every reachable state
\* of the adaptive decoder.
C2_CharSpaceFloor == char_space.n * dit_length.d * 2 >= dit_length.n * 5 * char_space.d

\* a decode_space_mark() call: the step that counts one more pair
SMDCallStep == smd_calls' = smd_calls + 1

GapInit == SMDInitAt(DitMs) /\ TxIdle /\ MDIdle /\ RestIdle /\ NoKeyer

\* the gap decoder fed elements by a caller
SpecMD == GapInit /\ [][MDNext]_vars

\* C3 (as claimed): elements separated by silences shorter than the
\* character space form one character: process_element returns nothing for
\* an element that follows such a silence, and the first flush made at least
\* one character space after the end of the last element returns the table
\* character of the whole pattern.
C3_ShortSilencesOneCharacter ==
  [][/\ (md_op' = "process" /\ md_count' = md_count + 1 /\ Len(md_run') >= 2)
          => md_ret' = << >>
     /\ (/\ md_op' = "flush"
         /\ md_now - md_last_end < CharSpaceDuration
         /\ md_now' - md_last_end >= CharSpaceDuration
         /\ md_run \in MorsePatterns)
          => md_ret' = <<MorseGet(md_run)>>]_vars

\* dit then dah, 1 dit apart, flushed one character space later: "A"
C3_DitDahIsA ==
  /\ md_op = "flush"
  /\ md_run = <<".", "-">>
  /\ md_now - md_last_end = CharSpaceDuration
  /\ md_ret = <<"A">>

KeyerInit ==
  /\ SMDInitAt(DitMs) /\ TxIdle /\ MDIdle /\ RestIdle
  /\ IKInit
  /\ \/ keyer = "IambicKeyer" /\ SKInitAt("iambic_b")
     \/ keyer = "SpaceMarkKeyer" /\ \E pt \in PaddleTypes : SKInitAt(pt)

KeyerNext == IKNext \/ SKNext

\* a keyer driven by paddle updates
SpecKeyer == KeyerInit /\ [][KeyerNext]_vars

-----------------------------------------------------------------------------
(* Keyer claims *)

\* the IambicKeyer loop queues an element in this step
IKGenerates == ik_pc = "poll" /\ ik_pc' = "sleep"
\* the SpaceMarkKeyer loop generates a mark in this step
SKGenerates == lp = "generate" /\ lp' = "top"

\* C4: while both paddles are held without interruption, an element the
\* IambicKeyer queues is of the other type than the element before it, and so
\* is a mark the SpaceMarkKeyer generates in iambic_b
C4_SqueezeAlternates ==
  [][ /\ (IKGenerates /\ ik_held) =>
           ik_is_dit' # ik_queue[Len(ik_queue)].is_dit
      /\ (SKGenerates /\ paddle_type = "iambic_b" /\ sq_held) =>
           MarkType(pair_queue'[Len(pair_queue')].mark) # LastMark ]_vars

\* C4 witness: one update pressed both paddles and the IambicKeyer, whose
\* first element of a squeeze is a dah, is sending a dit
C4_SecondSqueezeElement ==
  /\ keyer = "IambicKeyer"
  /\ ik_updates = 1
  /\ ik_held
  /\ ik_pc = "sleep"
  /\ ik_is_dit

\* both contacts of a squeeze were released during a mark in iambic_b and
\* no press has been reported since
SqueezeReleased ==
  keyer = "SpaceMarkKeyer" /\ paddle_type = "iambic_b" /\ rel_type # "none"

\* C5: in iambic_b, after both contacts of a squeeze are released during a
\* mark, at most one more mark is generated, it is of the other type, the
\* keyer is not Idle before it has generated it, and it does become Idle
C5_OneTrailingMark ==
  /\ [](SqueezeReleased =>
          /\ rel_marks <= 1
          /\ rel_marks = 1 => LastMark # rel_type
          /\ state = "IDLE" => rel_marks = 1)
  /\ SqueezeReleased ~> (state = "IDLE" \/ ~SqueezeReleased)

\* C5 witness: a squeeze released during a dah, the trailing dit sent, Idle
C5_TrailingMarkSent ==
  /\ paddle_type = "iambic_b"
  /\ rel_type = "dah"
  /\ rel_marks = 1
  /\ LastMark = "dit"
  /\ state = "IDLE"

\* C6: when the IambicKeyer loop looks at the paddles with its squeeze memory
\* set and finds the squeeze released (one paddle or both), it queues one
\* element of the type opposite to the element it has just sent
C6_TrailingElement ==
  [][ ( /\ ik_pc = "poll" /\ ik_running /\ ik_running'
        /\ ik_updates' = ik_updates
        /\ ik_squeeze_memory
        /\ ~(ik_dit_pressed /\ ik_dah_pressed) ) =>
      (ik_pc' = "sleep" /\ ik_is_dit' # ik_last_was_dit) ]_vars

\* C6 witness: the dit paddle alone is held after a squeeze and the
\* IambicKeyer is sending the trailing dah
C6_TrailingAfterOneRelease ==
  /\ keyer = "IambicKeyer"
  /\ ik_dit_pressed /\ ~ik_dah_pressed
  /\ ik_pc = "sleep"
  /\ ~ik_is_dit
  /\ ik_last_was_dit

\* C7: in iambic_a, after both contacts of a squeeze are released during a
\* mark, no further mark is generated
C7_NoTrailingMark ==
  (keyer = "SpaceMarkKeyer" /\ paddle_type = "iambic_a" /\ rel_type # "none") =>
    rel_marks = 0

\* a contact is reported pressed in this step
PressReported ==
  (~dit_pressed /\ dit_pressed') \/ (~dah_pressed /\ dah_pressed')
\* neither contact is held
Released == ~dit_pressed /\ ~dah_pressed
\* nothing is being sent and nothing will be
Settled ==
  /\ state = "IDLE"
  /\ ~straight_sending
  /\ bug_dit_mode = 0

\* C9: in every discipline, once both contacts stay released the keyer
\* generates finitely many further marks and eventually stays Idle
C9_SettlesAfterRelease == <>[]Released => <>[]Settled

\* C10: a press arms a timeout timer of 5 s, a pressed contact always has a
\* timer left that will clear it, and in the straight, bug, iambic A and
\* iambic B disciplines the keyer, left without further updates, ends up with
\* both contacts cleared and nothing more to send
C10_Watchdog ==
  /\ [][PressReported =>
          timeout_threads'[timeout_timer'] = [phase |-> "wait", rem |-> TimeoutDits]]_vars
  /\ [](~Released =>
          \E i \in TimerIds : timeout_threads[i].phase \in {"wait", "fired"})
  /\ paddle_type \in {"straight", "dual", "iambic_a", "iambic_b"} =>
       <>[](Released /\ Settled)

\* C10 witness: in iambic_b the only update pressed the dit contact, the
\* timeout callback has cleared it and the keyer is Idle after its marks
C10_ClearedByWatchdog ==
  /\ paddle_type = "iambic_b"
  /\ updates = 1
  /\ pair_queue # << >>
  /\ Released
  /\ timeout_timer = 0
  /\ state = "IDLE"
  /\ paddle_memory = <<FALSE, FALSE>>

KeyerLiveInit ==
  /\ SMDInitAt(DitMs) /\ TxIdle /\ MDIdle /\ RestIdle
  /\ IKInit
  /\ keyer = "SpaceMarkKeyer" /\ \E pt \in PaddleTypes : SKInitAt(pt)

\* the client starts the keyer, the loop and the timer threads run, and time
\* passes whenever the loop has nothing to do
KeyerFairness ==
  /\ WF_vars(SKStart)
  /\ WF_vars(SKLoop)
  /\ WF_vars(SKTimers)
  /\ SF_vars(SKAdvance)

\* a SpaceMarkKeyer that is started and left running
SpecKeyerLive == KeyerLiveInit /\ [][SKNext]_vars /\ KeyerFairness

-----------------------------------------------------------------------------
(* SpaceMarkKeyer.stop() *)

KeyerStopNext == SKNext \/ SKStopping

\* a SpaceMarkKeyer that is started, stopped and started again
SpecKeyerStop == KeyerLiveInit /\ [][KeyerStopNext]_vars

\* stop() returns in this step
StopReturns == stop_pc = "join" /\ stop_pc' = "none"
\* stop() has returned and start() has not been called since
Stopped == stops > 0 /\ ~running /\ stop_pc = "none"

\* C11: when stop() returns, no mark or inter-element timer and no
\* paddle-timeout timer is outstanding and the loop thread has ended
C11_StopLeavesNoTimer ==
  [][StopReturns =>
       /\ timer' = NoTimer
       /\ \A i \in TimerIds : timeout_threads'[i] = Free
       /\ lp' = "off"]_vars

\* update_paddle_state() is called in this step
UpdateCalled == updates' = updates + 1

\* C12: after stop() has returned, update_paddle_state() leaves the contact
\* state, the paddle memory and the current paddle as they are and starts no
\* paddle-timeout timer
C12_StoppedKeyerIgnoresUpdates ==
  [][(Stopped /\ UpdateCalled) =>
       UNCHANGED <<dit_pressed, dah_pressed, paddle_memory, cur_paddle,
                   timeout_timer, timeout_threads>>]_vars

\* C13: when stop() returns, the state is Idle and no paddle memory is latched
C13_StopResetsState ==
  [][StopReturns =>
       (state' = "IDLE" /\ paddle_memory' = <<FALSE, FALSE>>)]_vars

\* C17: with gap = element.timestamp - the last element's timestamp,
\* process_element returns the flushed pending character followed by " "
\* (just " " when nothing was pending) if gap >= word_space_duration, and
\* the flushed character alone if char_space_duration <= gap <
\* word_space_duration; in both cases the new pattern is this element's
\* symbol alone.
C17_GapFlushes ==
  [][\A is_dit \in BOOLEAN, silence \in Silences :
       (ProcessElement(is_dit, silence) /\ last_element_time # NoTime) =>
         LET gap == (md_last_end + silence) - last_element_time
             pending == IF current_char = << >> THEN << >>
                        ELSE IF current_char \in MorsePatterns
                          THEN <<MorseGet(current_char)>>
                          ELSE <<"<">> \o current_char \o <<">">>
             symbol == IF is_dit THEN "." ELSE "-"
         IN  /\ gap >= DitMs * WordSpaceThreshold =>
                  /\ md_ret' = pending \o <<" ">>
                  /\ current_char' = <<symbol>>
             /\ (gap >= DitMs * CharSpaceThreshold
                   /\ gap < DitMs * WordSpaceThreshold) =>
                  /\ md_ret' = pending
                  /\ current_char' = <<symbol>>]_vars

\* C17 witness: a word gap flushed "E" and left the new dah as the pattern
C17_WordGapFlushed ==
  /\ md_op = "process"
  /\ md_ret = <<"E", " ">>
  /\ current_char = <<"-">>

-----------------------------------------------------------------------------
(* SpaceMarkDecoder with its threads: the caller of decode_space_mark,
   flush and clear, and the threading.Timer thread that runs
   _flush_timer_expired.  The timer lock is held only inside
   _clear_flush_timer and around the creation of the timer, so every other
   statement of the two threads interleaves. *)

\* everything but the decoder and its threads
notDecoder == <<txVars, mdVars, keyerVars, cwVars, piVars, moreVars>>

\* decoder.py 480-485 _clear_flush_timer called by the calling thread: a
\* callback that has not yet cleared its own handle loses it
ClearedByCaller ==
  IF ft_pc = "f_clear" /\ flush_timer THEN TRUE ELSE ft_stale

\* decoder.py 343-357: decode_space_mark(space_ms, mark_ms) is entered
CallDecodeSpaceMark(space_ms, mark_ms) ==
  LET s == DecodeSpace(RInt(space_ms), dit_length, char_space, morse_ch,
                       decoded_text)
      m == DecodeMark(RInt(mark_ms), dit_length, last_mark, s.char_space,
                      s.morse_ch)
  IN  /\ mt_pc = "idle"
      /\ smd_calls < MaxPairs
      /\ s.char_space.d <= MaxDen
      /\ m.dit_length.d <= MaxDen
      /\ smd_calls' = smd_calls + 1
      /\ mt_pc' = "space"
      /\ mt_space' = space_ms
      /\ mt_mark' = mark_ms
      /\ mt_ch' = ""
      /\ smd_ret' = << >>
      /\ UNCHANGED <<dit_length, last_mark, char_space, morse_ch,
                     decoded_text, flush_timer>>
      /\ UNCHANGED <<mt_cont, ft_pc, ft_ch, ft_stale, flush_interval, pend_ix>>
      /\ UNCHANGED notDecoder

\* decoder.py 374-379: _decode_space clears the timer and tests the space
SpaceClearTimer ==
  /\ mt_pc = "space"
  /\ flush_timer' = FALSE
  /\ ft_stale' = ClearedByCaller
  /\ IF EndOfChar(RInt(mt_space), dit_length)
       THEN mt_pc' = "f_clear" /\ mt_cont' = "space2"
       ELSE mt_pc' = "mark" /\ UNCHANGED mt_cont
  /\ UNCHANGED <<dit_length, last_mark, char_space, morse_ch, decoded_text,
                 smd_ret, smd_calls>>
  /\ UNCHANGED <<mt_space, mt_mark, mt_ch, ft_pc, ft_ch, flush_interval,
                 pend_ix>>
  /\ UNCHANGED notDecoder

\* decoder.py 455: _flush_character on the calling thread clears the timer
CallerFlushClear ==
  /\ mt_pc = "f_clear"
  /\ flush_timer' = FALSE
  /\ ft_stale' = ClearedByCaller
  /\ mt_pc' = "f_test"
  /\ UNCHANGED <<dit_length, last_mark, char_space, morse_ch, decoded_text,
                 smd_ret, smd_calls>>
  /\ UNCHANGED <<mt_cont, mt_space, mt_mark, mt_ch, ft_pc, ft_ch,
                 flush_interval, pend_ix>>
  /\ UNCHANGED notDecoder

\* decoder.py 457-458: if self.morse_ch <= 1: return None
CallerFlushTest ==
  /\ mt_pc = "f_test"
  /\ IF morse_ch <= 1
       THEN /\ mt_pc' = mt_cont
            /\ mt_ch' = ""
            /\ smd_ret' = IF mt_cont = "idle" THEN << >> ELSE smd_ret
       ELSE /\ mt_pc' = "f_lookup"
            /\ UNCHANGED <<mt_ch, smd_ret>>
  /\ UNCHANGED <<dit_length, last_mark, char_space, morse_ch, decoded_text,
                 flush_timer, smd_calls>>
  /\ UNCHANGED <<mt_cont, mt_space, mt_mark, ft_pc, ft_ch, ft_stale,
                 flush_interval, pend_ix>>
  /\ UNCHANGED notDecoder

\* decoder.py 460-470: ch is looked up from self.morse_ch
CallerFlushLookup ==
  /\ mt_pc = "f_lookup"
  /\ mt_ch' = TreeChar(morse_ch)
  /\ mt_pc' = "f_append"
  /\ UNCHANGED smdVars
  /\ UNCHANGED <<mt_cont, mt_space, mt_mark, ft_pc, ft_ch, ft_stale,
                 flush_interval, pend_ix>>
  /\ UNCHANGED notDecoder

\* decoder.py 472: self.decoded_text += ch
CallerFlushAppend ==
  /\ mt_pc = "f_append"
  /\ decoded_text' = Append(decoded_text, mt_ch)
  /\ pend_ix' = 1
  /\ mt_pc' = "f_reset"
  /\ UNCHANGED <<dit_length, last_mark, char_space, morse_ch, flush_timer,
                 smd_ret, smd_calls>>
  /\ UNCHANGED <<mt_cont, mt_space, mt_mark, mt_ch, ft_pc, ft_ch, ft_stale,
                 flush_interval>>
  /\ UNCHANGED notDecoder

\* decoder.py 473-474: self.morse_ch = 1; return ch
CallerFlushReset ==
  /\ mt_pc = "f_reset"
  /\ morse_ch' = 1
  /\ mt_pc' = mt_cont
  /\ smd_ret' = IF mt_cont = "idle" THEN <<mt_ch>> ELSE smd_ret
  /\ UNCHANGED <<dit_length, last_mark, char_space, decoded_text,
                 flush_timer, smd_calls>>
  /\ UNCHANGED <<mt_cont, mt_space, mt_mark, mt_ch, ft_pc, ft_ch, ft_stale,
                 flush_interval, pend_ix>>
  /\ UNCHANGED notDecoder

\* decoder.py 381-407: the space after the flush is classified
SpaceClassify ==
  LET ch == IF mt_ch = "" THEN << >> ELSE <<mt_ch>>
  IN  /\ mt_pc = "space2"
      /\ IF IsWordSpace(RInt(mt_space), char_space)
           THEN /\ smd_ret' = ch \o <<" ">>
                /\ char_space' = RScale(char_space, 103, 100)
           ELSE /\ smd_ret' = ch
                /\ char_space' = AdaptCharSpace(RInt(mt_space), char_space)
      /\ mt_pc' = "mark"
      /\ UNCHANGED <<dit_length, last_mark, morse_ch, decoded_text,
                     flush_timer, smd_calls>>
      /\ UNCHANGED <<mt_cont, mt_space, mt_mark, mt_ch, ft_pc, ft_ch,
                     ft_stale, flush_interval, pend_ix>>
      /\ UNCHANGED notDecoder

\* decoder.py 416: self.morse_ch *= 2
MarkDouble ==
  /\ mt_pc = "mark"
  /\ morse_ch' = morse_ch * 2
  /\ mt_pc' = "mark2"
  /\ UNCHANGED <<dit_length, last_mark, char_space, decoded_text,
                 flush_timer, smd_ret, smd_calls>>
  /\ UNCHANGED <<mt_cont, mt_space, mt_mark, mt_ch, ft_pc, ft_ch, ft_stale,
                 flush_interval, pend_ix>>
  /\ UNCHANGED notDecoder

\* decoder.py 418-422: a dah adds one; the mark is now part of the character
MarkDah ==
  LET is_dah == RLt(RScale(dit_length, 17, 10), RInt(mt_mark))
  IN  /\ mt_pc = "mark2"
      /\ morse_ch' = IF is_dah THEN morse_ch + 1 ELSE morse_ch
      /\ pend_ix' = TreeStep(pend_ix, is_dah)
      /\ mt_pc' = "mark3"
      /\ UNCHANGED <<dit_length, last_mark, char_space, decoded_text,
                     flush_timer, smd_ret, smd_calls>>
      /\ UNCHANGED <<mt_cont, mt_space, mt_mark, mt_ch, ft_pc, ft_ch,
                     ft_stale, flush_interval>>
      /\ UNCHANGED notDecoder

\* decoder.py 424-434: the speed estimate follows the mark
MarkAdapt ==
  LET m == DecodeMark(RInt(mt_mark), dit_length, last_mark, char_space, 1)
  IN  /\ mt_pc = "mark3"
      /\ dit_length' = m.dit_length
      /\ last_mark' = m.last_mark
      /\ char_space' = m.char_space
      /\ mt_pc' = "arm"
      /\ UNCHANGED <<morse_ch, decoded_text, flush_timer, smd_ret, smd_calls>>
      /\ UNCHANGED <<mt_cont, mt_space, mt_mark, mt_ch, ft_pc, ft_ch,
                     ft_stale, flush_interval, pend_ix>>
      /\ UNCHANGED notDecoder

\* decoder.py 439-440: the interval of the flush timer, ms
FlushInterval(dl) == RScale(dl, 8, 1)

\* decoder.py 436-444: the flush timer is cleared and started anew
MarkArmTimer ==
  /\ mt_pc = "arm"
  /\ flush_timer' = TRUE
  /\ flush_interval' = FlushInterval(dit_length)
  /\ ft_stale' = ClearedByCaller
  /\ mt_pc' = "idle"
  /\ UNCHANGED <<dit_length, last_mark, char_space, morse_ch, decoded_text,
                 smd_ret, smd_calls>>
  /\ UNCHANGED <<mt_cont, mt_space, mt_mark, mt_ch, ft_pc, ft_ch, pend_ix>>
  /\ UNCHANGED notDecoder

\* decoder.py 549-556: flush() is entered
CallFlush ==
  /\ mt_pc = "idle"
  /\ mt_pc' = "f_clear"
  /\ mt_cont' = "idle"
  /\ UNCHANGED smdVars
  /\ UNCHANGED <<mt_space, mt_mark, mt_ch, ft_pc, ft_ch, ft_stale,
                 flush_interval, pend_ix>>
  /\ UNCHANGED notDecoder

\* decoder.py 540-542: clear() is entered and clears the timer
CallClear ==
  /\ mt_pc = "idle"
  /\ flush_timer' = FALSE
  /\ ft_stale' = ClearedByCaller
  /\ mt_pc' = "c_text"
  /\ UNCHANGED <<dit_length, last_mark, char_space, morse_ch, decoded_text,
                 smd_ret, smd_calls>>
  /\ UNCHANGED <<mt_cont, mt_space, mt_mark, mt_ch, ft_pc, ft_ch,
                 flush_interval, pend_ix>>
  /\ UNCHANGED notDecoder

\* decoder.py 543: self.decoded_text = ""
ClearText ==
  /\ mt_pc = "c_text"
  /\ decoded_text' = << >>
  /\ mt_pc' = "c_index"
  /\ UNCHANGED <<dit_length, last_mark, char_space, morse_ch, flush_timer,
                 smd_ret, smd_calls>>
  /\ UNCHANGED <<mt_cont, mt_space, mt_mark, mt_ch, ft_pc, ft_ch, ft_stale,
                 flush_interval, pend_ix>>
  /\ UNCHANGED notDecoder

\* decoder.py 544: self.morse_ch = 1
ClearIndex ==
  /\ mt_pc = "c_index"
  /\ morse_ch' = 1
  /\ pend_ix' = 1
  /\ mt_pc' = "idle"
  /\ UNCHANGED <<dit_length, last_mark, char_space, decoded_text,
                 flush_timer, smd_ret, smd_calls>>
  /\ UNCHANGED <<mt_cont, mt_space, mt_mark, mt_ch, ft_pc, ft_ch, ft_stale,
                 flush_interval>>
  /\ UNCHANGED notDecoder

\* threading.Timer.run: the interval is over and the timer was not cancelled,
\* so _flush_timer_expired (decoder.py 476-478) is called on the timer thread
TimerFires ==
  /\ flush_timer
  /\ ft_pc = "none"
  /\ ft_pc' = "f_clear"
  /\ ft_stale' = FALSE
  /\ UNCHANGED smdVars
  /\ UNCHANGED <<mt_pc, mt_cont, mt_space, mt_mark, mt_ch, ft_ch,
                 flush_interval, pend_ix>>
  /\ UNCHANGED notDecoder

\* decoder.py 455 on the timer thread: whatever timer is current is cleared
TimerFlushClear ==
  /\ ft_pc = "f_clear"
  /\ flush_timer' = FALSE
  /\ ft_pc' = "f_test"
  /\ UNCHANGED <<dit_length, last_mark, char_space, morse_ch, decoded_text,
                 smd_ret, smd_calls>>
  /\ UNCHANGED <<mt_pc, mt_cont, mt_space, mt_mark, mt_ch, ft_ch, ft_stale,
                 flush_interval, pend_ix>>
  /\ UNCHANGED notDecoder

\* decoder.py 457-458 on the timer thread
TimerFlushTest ==
  /\ ft_pc = "f_test"
  /\ ft_pc' = IF morse_ch <= 1 THEN "none" ELSE "f_lookup"
  /\ UNCHANGED smdVars
  /\ UNCHANGED <<mt_pc, mt_cont, mt_space, mt_mark, mt_ch, ft_ch, ft_stale,
                 flush_interval, pend_ix>>
  /\ UNCHANGED notDecoder

\* decoder.py 460-470 on the timer thread
TimerFlushLookup ==
  /\ ft_pc = "f_lookup"
  /\ ft_ch' = TreeChar(morse_ch)
  /\ ft_pc' = "f_append"
  /\ UNCHANGED smdVars
  /\ UNCHANGED <<mt_pc, mt_cont, mt_space, mt_mark, mt_ch, ft_stale,
                 flush_interval, pend_ix>>
  /\ UNCHANGED notDecoder

\* decoder.py 472 on the timer thread
TimerFlushAppend ==
  /\ ft_pc = "f_append"
  /\ decoded_text' = Append(decoded_text, ft_ch)
  /\ pend_ix' = 1
  /\ ft_pc' = "f_reset"
  /\ UNCHANGED <<dit_length, last_mark, char_space, morse_ch, flush_timer,
                 smd_ret, smd_calls>>
  /\ UNCHANGED <<mt_pc, mt_cont, mt_space, mt_mark, mt_ch, ft_ch, ft_stale,
                 flush_interval>>
  /\ UNCHANGED notDecoder

\* decoder.py 473-474 on the timer thread
TimerFlushReset ==
  /\ ft_pc = "f_reset"
  /\ morse_ch' = 1
  /\ ft_pc' = "none"
  /\ UNCHANGED <<dit_length, last_mark, char_space, decoded_text,
                 flush_timer, smd_ret, smd_calls>>
  /\ UNCHANGED <<mt_pc, mt_cont, mt_space, mt_mark, mt_ch, ft_ch, ft_stale,
                 flush_interval, pend_ix>>
  /\ UNCHANGED notDecoder

\* the statements of the calling thread
CallerStep ==
  \/ SpaceClearTimer
  \/ CallerFlushClear
  \/ CallerFlushTest
  \/ CallerFlushLookup
  \/ CallerFlushAppend
  \/ CallerFlushReset
  \/ SpaceClassify
  \/ MarkDouble
  \/ MarkDah
  \/ MarkAdapt
  \/ MarkArmTimer
  \/ ClearText
  \/ ClearIndex

\* the statements of the timer thread
TimerStep ==
  \/ TimerFires
  \/ TimerFlushClear
  \/ TimerFlushTest
  \/ TimerFlushLookup
  \/ TimerFlushAppend
  \/ TimerFlushReset

\* space and mark durations (ms) of the calls that race the timer: an
\* intra-character and an inter-character space, a dit and a dah
RaceSpaces == {70, 250}
RaceMarks == {60, 180}

RaceNext ==
  \/ \E s \in RaceSpaces, m \in RaceMarks : CallDecodeSpaceMark(s, m)
  \/ CallFlush
  \/ CallClear
  \/ CallerStep
  \/ TimerStep

RaceInit ==
  SMDInitAt(DitMs) /\ TxIdle /\ MDIdle /\ RestIdle /\ NoKeyer

SpecRace == RaceInit /\ [][RaceNext]_vars

\* no call is under way and no callback is running
Quiet == mt_pc = "idle" /\ ft_pc = "none"

\* a step that appends to the decoded text
Appends == Len(decoded_text') = Len(decoded_text) + 1

\* a step of a callback whose handle was cleared or replaced
StaleStep == ft_stale /\ ft_pc # "none" /\ ft_pc' # ft_pc

\* C14: whatever the interleaving of the timer callback with
\* decode_space_mark, flush and clear, every append to the decoded text is the
\* character of the marks decoded and not yet flushed (so no character is
\* appended twice or without its last mark), the tree index of a quiet decoder
\* encodes exactly those marks, and a callback whose handle was cleared or
\* replaced changes neither the text nor the index.
C14_TimerRaceSafe ==
  /\ [](Quiet => morse_ch = pend_ix)
  /\ [][Appends => /\ pend_ix > 1
                   /\ decoded_text' = Append(decoded_text, TreeChar(pend_ix))]_vars
  /\ [][StaleStep => UNCHANGED <<decoded_text, morse_ch>>]_vars

\* threading.Timer: an armed timer that is not cancelled fires, and the
\* callback it started runs to its end
RaceFairness == WF_vars(TimerStep)

SpecRaceLive == RaceInit /\ [][RaceNext]_vars /\ RaceFairness

\* a decode_space_mark call has returned and left a pending character
Pending == mt_pc = "idle" /\ morse_ch > 1 /\ flush_timer

\* the pending marks were flushed and the tree index is back at its root
AutoFlushed == morse_ch = 1 /\ pend_ix = 1

\* the calling thread has cleared the timer and not yet started a new one
CallerCleared ==
  /\ mt_pc \notin {"idle", "space"}
  /\ ~(mt_pc = "f_clear" /\ mt_cont = "idle")

\* the callback returns the tree index to 1
TimerResets == ft_pc = "f_reset" /\ ft_pc' = "none"

\* C15: the timer started by decode_space_mark runs for 8 x dit_length ms;
\* a pending character left by a call is flushed by the timer unless another
\* call arrives first: its character is appended to the decoded text and the
\* tree index returns to 1; a call that arrives before the timer has fired
\* cancels it, and no callback starts until that call has started a new timer.
C15_AutoFlush ==
  /\ [](flush_timer => flush_interval = RScale(dit_length, 8, 1))
  /\ (Pending ~> (AutoFlushed \/ mt_pc # "idle"))
  /\ [][TimerResets => pend_ix = 1]_vars
  /\ [][(mt_pc = "space" /\ mt_pc' # "space") => ~flush_timer']_vars
  /\ [][(CallerCleared /\ ft_pc = "none") => ft_pc' = "none"]_vars

\* a timer callback has run with no call under way and flushed the character
C15_FlushedByTimer ==
  /\ AutoFlushed
  /\ Quiet
  /\ decoded_text # << >>

-----------------------------------------------------------------------------
(* SpaceMarkDecoder: the classification of a space *)

\* config.py 26 dit_duration * 1000.0: 20 WPM, 15 WPM and a dit of one second
ClassDits == {60, 80, 1000}
\* space durations (ms) on both sides of 2 x dit_length, of the word space
\* and of the 3000 ms limit
ClassSpaces == {70, 120, 160, 250, 500, 2999, 3000}

SpaceNext ==
  \/ \E s \in ClassSpaces, m \in Marks : DecodeSpaceMark(s, m)
  \/ FlushTimerExpired
  \/ Flush
  \/ Clear

SpaceInit ==
  (\E d \in ClassDits : SMDInitAt(d)) /\ TxIdle /\ MDIdle /\ RestIdle /\ NoKeyer

SpecSpace == SpaceInit /\ [][SpaceNext]_vars

\* C16: decode_space_mark(s, m) treats s as intra-character iff
\* s <= 2 x dit_length: nothing is flushed or returned and the mark extends
\* the pending character.  Any longer space flushes the pending character
\* and the mark starts a new one; the returned value ends with " " iff
\* s >= (char_space / 3) x 5.5 or s >= 3000.
C16_SpaceClassification ==
  [][\A s \in ClassSpaces, m \in Marks : DecodeSpaceMark(s, m) =>
       LET intra == RLe(RInt(s), RScale(dit_length, 2, 1))
           word == \/ RLe(RScale(RScale(char_space, 1, 3), 11, 2), RInt(s))
                   \/ s >= 3000
           ch == IF morse_ch > 1 THEN <<TreeChar(morse_ch)>> ELSE << >>
       IN  IF intra
             THEN /\ smd_ret' = << >>
                  /\ decoded_text' = decoded_text
                  /\ morse_ch' \in {2 * morse_ch, 2 * morse_ch + 1}
             ELSE /\ decoded_text' = decoded_text \o ch
                  /\ morse_ch' \in {2, 3}
                  /\ smd_ret' = IF word THEN ch \o <<" ">> ELSE ch]_vars

\* C16 witness: a space ended the character "E" without ending the word
C16_CharacterBoundary ==
  /\ smd_calls = 2
  /\ smd_ret = <<"E">>
  /\ decoded_text = <<"E">>
  /\ morse_ch \in {2, 3}

-----------------------------------------------------------------------------
(* CWDecoder: paddle events to elements *)

\* decoder.py 118: deque(maxlen=10)
RecentMax == 10

\* times (ms) between one paddle event and the next
EventGaps == {60, 180}

\* decoder.py 159: the deque after append(x)
Recent(recent, x) ==
  IF Len(recent) < RecentMax THEN Append(recent, x)
  ELSE Append(Tail(recent), x)

\* decoder.py 162: the places of the dits among the recent durations
DitPlaces(recent) == {i \in 1..Len(recent) : recent[i][2]}

\* decoder.py 166-167: sorted(dit_durations)[len(dit_durations) // 2]
MedianDit(recent) ==
  LET P == DitPlaces(recent)
      k == Cardinality(P) \div 2
  IN  CHOOSE x \in {recent[i][1] : i \in P} :
        /\ Cardinality({i \in P : recent[i][1] < x}) <= k
        /\ Cardinality({i \in P : recent[i][1] <= x}) > k

\* decoder.py 164-175: config.dit_duration after the adjustment
AdjustedDit(recent, current_dit) ==
  LET new_dit == RAdd(RScale(current_dit, 7, 10),
                      RScale(RInt(MedianDit(recent)), 3, 10))
  IN  IF Cardinality(DitPlaces(recent)) >= 3
         /\ (\/ RLt(RScale(current_dit, 11, 10), new_dit)
             \/ RLt(new_dit, RScale(current_dit, 9, 10)))
        THEN new_dit
        ELSE current_dit

\* the check of decoder.py 139 left out
AnyPress(press, key_type) == FALSE

\* decoder.py 139: press_time is None
NoPress(press, key_type) == press[key_type] = NoTime

\* one slot for both keys
SharedSlot(is_dit) == TRUE

\* decoder.py 129: key_type = event.is_dit, the slot of the event's key
KeyType(is_dit) == is_dit

\* decoder.py 120-149 process_event(event), the event coming dt after the
\* last one
ProcessEvent(is_dit, is_pressed, dt) ==
  LET timestamp == cw_now + dt
      key_type == KeyType(is_dit)
      duration == timestamp - press_time[key_type]
      recent == Recent(recent_durations, <<duration, is_dit>>)
  IN  /\ cw_events < MaxEvents
      /\ cw_events' = cw_events + 1
      /\ cw_now' = timestamp
      /\ cw_event' = <<is_dit, is_pressed>>
      /\ IF is_pressed
           THEN /\ press_time' = [press_time EXCEPT ![key_type] = timestamp]
                /\ cw_ret' = << >>
                /\ UNCHANGED <<recent_durations, cw_dit_duration>>
           ELSE IF NoPress(press_time, key_type)
             THEN /\ cw_ret' = << >>
                  /\ UNCHANGED <<press_time, recent_durations, cw_dit_duration>>
             ELSE /\ press_time' = [press_time EXCEPT ![key_type] = NoTime]
                  /\ cw_ret' = <<[is_dit |-> is_dit, duration |-> duration,
                                  timestamp |-> press_time[key_type]]>>
                  /\ IF cw_auto_wpm
                       THEN /\ recent_durations' = recent
                            /\ cw_dit_duration' =
                                 AdjustedDit(recent, cw_dit_duration)
                       ELSE UNCHANGED <<recent_durations, cw_dit_duration>>
      /\ recent_dits' =
           IF ~is_pressed /\ ~NoPress(press_time, key_type) /\ cw_auto_wpm /\ is_dit
             THEN Recent(recent_dits, duration)
             ELSE recent_dits
      /\ UNCHANGED cw_auto_wpm
      /\ UNCHANGED <<smdVars, txVars, mdVars, keyerVars, raceVars, piVars,
                     moreVars>>

CWNext ==
  \E is_dit \in BOOLEAN, is_pressed \in BOOLEAN, dt \in EventGaps :
    ProcessEvent(is_dit, is_pressed, dt)

CWInit ==
  /\ SMDInitAt(DitMs) /\ TxIdle /\ MDIdle /\ NoKeyer
  /\ RaceIdle /\ PIInitAt("straight") /\ MoreIdle
  /\ \E a \in BOOLEAN : CWInitAt(a)

SpecCW == CWInit /\ [][CWNext]_vars

\* C19: a release event for a key with no recorded press returns no element
\* and changes neither press slot nor the timing estimate.
C19_SpuriousReleaseIgnored ==
  [][\A is_dit \in BOOLEAN, dt \in EventGaps :
       (ProcessEvent(is_dit, FALSE, dt) /\ press_time[is_dit] = NoTime) =>
         /\ cw_ret' = << >>
         /\ UNCHANGED <<press_time, recent_durations, cw_dit_duration>>]_vars

\* C19 witness: the dit key was released a second time after three dits
\* had adjusted the estimate
C19_ReleasedTwice ==
  /\ cw_event = <<TRUE, FALSE>>
  /\ cw_ret = << >>
  /\ Len(recent_durations) = 3
  /\ cw_dit_duration # RInt(DitMs)

-----------------------------------------------------------------------------
(* PaddleInterface with the IambicKeyer it creates for the iambic types *)

\* everything but the interface and its keyer
notPaddle == <<keyer, skVars, smdVars, txVars, mdVars, raceVars, cwVars,
               moreVars>>

\* paddle.py 77-90 start()
PIStart ==
  /\ (~pi_running /\ pi_keyer) => ik_pc = "off"
  /\ pi_op' = "start"
  /\ pi_ret' = "none"
  /\ pi_started' = TRUE
  /\ IF pi_running
       THEN UNCHANGED <<pi_running, ik_running, ik_pc>>
       ELSE /\ pi_running' = TRUE
            /\ IF pi_keyer
                 THEN ik_running' = TRUE /\ ik_pc' = "poll"
                 ELSE UNCHANGED <<ik_running, ik_pc>>
  /\ UNCHANGED <<pi_paddle_type, pi_keyer, pi_dit_pressed, pi_dah_pressed,
                 pi_event_queue>>
  /\ UNCHANGED <<ik_dit_pressed, ik_dah_pressed, ik_last_was_dit,
                 ik_squeeze_memory, ik_queue, ik_is_dit, ik_sleep, ik_updates,
                 ik_held>>
  /\ UNCHANGED notPaddle

\* paddle.py 92-106 stop()
PIStop ==
  /\ pi_op' = "stop"
  /\ pi_ret' = "none"
  /\ pi_running' = FALSE
  /\ ik_running' = IF pi_running /\ pi_keyer THEN FALSE ELSE ik_running
  /\ UNCHANGED <<pi_paddle_type, pi_keyer, pi_dit_pressed, pi_dah_pressed,
                 pi_event_queue, pi_started>>
  /\ UNCHANGED <<ik_dit_pressed, ik_dah_pressed, ik_last_was_dit,
                 ik_squeeze_memory, ik_queue, ik_pc, ik_is_dit, ik_sleep,
                 ik_updates, ik_held>>
  /\ UNCHANGED notPaddle

\* paddle.py 114-156 _on_key_press and 158-190 _on_key_release for the dit
\* (is_dit) or the dah key; a press within debounce_time of the last one
\* (bounced) is dropped
OnKey(is_dit, is_pressed, bounced) ==
  LET dit == IF is_dit THEN is_pressed ELSE pi_dit_pressed
      dah == IF is_dit THEN pi_dah_pressed ELSE is_pressed
  IN  /\ pi_running
      /\ ~(is_pressed /\ bounced)
      /\ is_pressed # (IF is_dit THEN pi_dit_pressed ELSE pi_dah_pressed)
      /\ pi_keyer => ik_updates < MaxUpdates
      /\ pi_dit_pressed' = dit
      /\ pi_dah_pressed' = dah
      /\ pi_event_queue' = Put(pi_event_queue, <<is_dit, is_pressed>>)
      /\ pi_op' = "key"
      /\ pi_ret' = "none"
      /\ IF pi_keyer
           THEN /\ ik_updates' = ik_updates + 1
                /\ ik_dit_pressed' = dit
                /\ ik_dah_pressed' = dah
                /\ ik_held' = (ik_held /\ dit /\ dah)
           ELSE UNCHANGED <<ik_updates, ik_dit_pressed, ik_dah_pressed, ik_held>>
      /\ UNCHANGED <<pi_paddle_type, pi_keyer, pi_running, pi_started>>
      /\ UNCHANGED <<ik_running, ik_last_was_dit, ik_squeeze_memory, ik_queue,
                     ik_pc, ik_is_dit, ik_sleep>>
      /\ UNCHANGED notPaddle

\* paddle.py 216-223 has_keyer()
PIHasKeyer ==
  /\ pi_op' = "has_keyer"
  /\ pi_ret' = IF pi_keyer THEN "True" ELSE "False"
  /\ UNCHANGED <<pi_paddle_type, pi_keyer, pi_running, pi_dit_pressed,
                 pi_dah_pressed, pi_event_queue, pi_started>>
  /\ UNCHANGED <<ikVars, notPaddle>>

\* paddle.py 225-242 get_keyed_element(timeout), keyer.py 74-87 get_element
PIGetKeyedElement ==
  /\ pi_op' = "get_keyed_element"
  /\ IF ~pi_keyer
       THEN pi_ret' = "RuntimeError" /\ UNCHANGED ik_queue
       ELSE IF ik_queue = << >>
         THEN pi_ret' = "None" /\ UNCHANGED ik_queue
         ELSE /\ pi_ret' = IF Head(ik_queue).is_dit THEN "dit" ELSE "dah"
              /\ ik_queue' = Tail(ik_queue)
  /\ UNCHANGED <<pi_paddle_type, pi_keyer, pi_running, pi_dit_pressed,
                 pi_dah_pressed, pi_event_queue, pi_started>>
  /\ UNCHANGED <<ik_running, ik_dit_pressed, ik_dah_pressed, ik_last_was_dit,
                 ik_squeeze_memory, ik_pc, ik_is_dit, ik_sleep, ik_updates,
                 ik_held>>
  /\ UNCHANGED notPaddle

PaddleNext ==
  \/ PIStart
  \/ PIStop
  \/ \E is_dit \in BOOLEAN, is_pressed \in BOOLEAN, bounced \in BOOLEAN :
       OnKey(is_dit, is_pressed, bounced)
  \/ PIHasKeyer
  \/ PIGetKeyedElement
  \/ IKPoll
  \/ IKWake
  \/ IKExit
  \/ IKAdvance

PaddleInit ==
  /\ SMDInitAt(DitMs) /\ TxIdle /\ MDIdle /\ RaceIdle /\ CWInitAt(TRUE)
  /\ MoreIdle
  /\ IKInit /\ SKInitAt("iambic_b")
  /\ \E pt \in PaddleTypes : PIInitAt(pt)
  /\ keyer = IF pi_keyer THEN "IambicKeyer" ELSE "none"

SpecPaddle == PaddleInit /\ [][PaddleNext]_vars

-----------------------------------------------------------------------------
(* One pattern of the Morse table keyed into the tree index and flushed *)

TxInit ==
  /\ tx_pattern \in MorsePatterns
  /\ tx_pos = 0
  /\ tx_done = FALSE

\* decoder.py 416-422: the next symbol of the pattern moves the index
KeySymbol ==
  /\ tx_pos < Len(tx_pattern)
  /\ morse_ch' = TreeStep(morse_ch, tx_pattern[tx_pos + 1] = "-")
  /\ tx_pos' = tx_pos + 1
  /\ UNCHANGED <<dit_length, last_mark, char_space, decoded_text, flush_timer,
                 smd_ret, smd_calls, tx_pattern, tx_done, mdVars, keyerVars, restVars>>

\* decoder.py 549-556 flush() once the whole pattern is keyed
TxFlush ==
  LET f == FlushCharacter(morse_ch, decoded_text)
  IN  /\ tx_pos = Len(tx_pattern)
      /\ ~tx_done
      /\ tx_done' = TRUE
      /\ flush_timer' = FALSE
      /\ morse_ch' = f.morse_ch
      /\ decoded_text' = f.decoded_text
      /\ smd_ret' = f.ret
      /\ UNCHANGED <<dit_length, last_mark, char_space, smd_calls, tx_pattern,
                     tx_pos, mdVars, keyerVars, restVars>>

TreeNext == KeySymbol \/ TxFlush

TreeInit == SMDInitAt(DitMs) /\ TxInit /\ MDIdle /\ RestIdle /\ NoKeyer

SpecTree == TreeInit /\ [][TreeNext]_vars

-----------------------------------------------------------------------------
(* Any pattern of dits and dahs keyed into both decoders and flushed *)

\* every sequence of up to MaxSymbols dits and dahs
AllPatterns == UNION {[1..n -> {".", "-"}] : n \in 0..MaxSymbols}

\* decoder.py 232-235: process_element adds the next symbol of the pattern
\* to the current character
MDKeySymbol ==
  /\ md_op # "flush"
  /\ Len(current_char) < Len(tx_pattern)
  /\ current_char' = Append(current_char, tx_pattern[Len(current_char) + 1])
  /\ last_element_time' = md_now
  /\ md_op' = "process"
  /\ md_ret' = << >>
  /\ UNCHANGED <<md_now, md_last_end, md_run, md_count>>
  /\ UNCHANGED <<smdVars, txVars, keyerVars, restVars>>

\* decoder.py 259-272 _flush_character once the whole pattern is keyed
MDFlushPattern ==
  /\ md_op # "flush"
  /\ current_char = tx_pattern
  /\ md_ret' = MDFlushCharacter(current_char)
  /\ current_char' = << >>
  /\ md_op' = "flush"
  /\ UNCHANGED <<last_element_time, md_now, md_last_end, md_run, md_count>>
  /\ UNCHANGED <<smdVars, txVars, keyerVars, restVars>>

MalformedNext == KeySymbol \/ TxFlush \/ MDKeySymbol \/ MDFlushPattern

MalformedInit ==
  /\ SMDInitAt(DitMs) /\ MDIdle /\ RestIdle /\ NoKeyer
  /\ tx_pattern \in AllPatterns
  /\ tx_pos = 0
  /\ tx_done = FALSE

SpecMalformed == MalformedInit /\ [][MalformedNext]_vars

RECURSIVE PatternIndex(_)
\* the tree index of a pattern: 1 for the root, 2i for a dit, 2i + 1 for a dah
PatternIndex(pattern) ==
  IF pattern = << >> THEN 1
  ELSE 2 * PatternIndex(SubSeq(pattern, 1, Len(pattern) - 1))
         + (IF pattern[Len(pattern)] = "-" THEN 1 ELSE 0)

\* C18: whatever dits and dahs were keyed, the flush of MorseDecoder returns
\* the table character of the pattern or the pattern wrapped in "<" and ">",
\* and the flush of SpaceMarkDecoder returns the character the tree holds at
\* the index ("$" and "~" for the two prosigns) or "*", "*" also when the
\* index lies beyond the tree; both leave an empty accumulator.
C18_MalformedNeverFails ==
  /\ (tx_done /\ tx_pattern # << >>) =>
       LET i == PatternIndex(tx_pattern)
       IN  /\ morse_ch = 1
           /\ Len(smd_ret) = 1
           /\ i \notin {137, 197} =>
                smd_ret[1] = IF i < Len(MORSE_TREE) THEN MORSE_TREE[i + 1]
                             ELSE "*"
           /\ i = 137 => smd_ret[1] = "$"
           /\ i = 197 => smd_ret[1] = "~"
  /\ (md_op = "flush" /\ tx_pattern # << >>) =>
       /\ current_char = << >>
       /\ md_ret = IF tx_pattern \in MorsePatterns
                     THEN <<MorseGet(tx_pattern)>>
                     ELSE <<"<">> \o tx_pattern \o <<">">>

\* C18 witness: eight dits flushed by both decoders, an index beyond the tree
C18_BeyondTheTable ==
  /\ tx_done
  /\ md_op = "flush"
  /\ tx_pattern = <<".", ".", ".", ".", ".", ".", ".", ".">>
  /\ smd_ret = <<"*">>
  /\ md_ret = <<"<", ".", ".", ".", ".", ".", ".", ".", ".", ">">>

-----------------------------------------------------------------------------
(* The straight-key and bug disciplines of SpaceMarkKeyer *)

\* C21: in the straight-key discipline the loop queues exactly one pair when
\* it sees the combined contact (dit or dah) go from closed to open and none
\* when it sees it close; the pair's mark is the time the contact was seen
\* closed and its space the time it was seen open before that closure
C21_StraightKeyPairs ==
  [][(keyer = "SpaceMarkKeyer" /\ paddle_type = "straight") =>
       LET opens == straight_sending /\ ~straight_sending'
           closes == ~straight_sending /\ straight_sending'
       IN  /\ (opens \/ closes) =>
                 /\ straight_sending' = (dit_pressed \/ dah_pressed)
                 /\ elapsed' = 0
           /\ opens =>
                 /\ Len(pair_queue') = Min(Len(pair_queue) + 1, MaxQueue)
                 /\ pair_queue'[Len(pair_queue')] =
                      [space |-> straight_space_time, mark |-> elapsed]
                 /\ straight_space_time' = straight_space_time
           /\ closes =>
                 /\ pair_queue' = pair_queue
                 /\ straight_space_time' = elapsed
           /\ (~opens /\ ~closes) =>
                 /\ pair_queue' = pair_queue
                 /\ straight_space_time' = straight_space_time
                 /\ elapsed' \in {elapsed, Min(elapsed + 1, MaxElapsed), 0}]_vars

\* C21 witness: the key was open for one dit, closed for two and is open
\* again; the one pair queued says so
C21_KeyedOnce ==
  /\ paddle_type = "straight"
  /\ running
  /\ updates = 2
  /\ ~straight_sending
  /\ pair_queue = <<[space |-> 1, mark |-> 2]>>

\* C22: in the bug (dual) discipline every mark keyed by the dit contact alone
\* lasts exactly one dit, however long the contact is held, and while the dit
\* contact stays held the space after it lasts exactly one dit
C22_BugDitTiming ==
  [][(keyer = "SpaceMarkKeyer" /\ paddle_type = "dual") =>
       LET opens == straight_sending /\ ~straight_sending'
           closes == ~straight_sending /\ straight_sending'
       IN  /\ (opens /\ ~dah_keyed) =>
                 pair_queue'[Len(pair_queue')].mark = 1
           /\ (closes /\ bug_dit_mode = 2 /\ dit_pressed /\ ~dah_pressed) =>
                 straight_space_time' = 1]_vars

\* C22 witness: the dit contact is held, the first automatic dit has been
\* sent with a mark of one dit and the second is under way after a space of
\* one dit
C22_SecondDitUnderWay ==
  /\ paddle_type = "dual"
  /\ dit_pressed /\ ~dah_pressed /\ ~dah_keyed
  /\ updates = 1
  /\ pair_queue = <<[space |-> 0, mark |-> 1]>>
  /\ straight_sending
  /\ straight_space_time = 1

-----------------------------------------------------------------------------
(* Selection of the next mark in SpaceMarkKeyer's iambic mode A *)

\* C23: in iambic mode A, when both contacts have been held ever since the
\* last mark was generated the mark selected next is of the other type, and
\* when exactly one contact is held and the other has no memory latched the
\* mark selected is of the held contact's type
C23_ModeASelection ==
  [][(/\ keyer = "SpaceMarkKeyer"
      /\ paddle_type = "iambic_a"
      /\ lp = "select"
      /\ lp' \in {"clear", "generate"}) =>
       /\ (sq_held /\ dit_pressed /\ dah_pressed /\ pair_queue # << >>) =>
             MarkType(IF cur_paddle' = DIT THEN 1 ELSE 3) # LastMark
       /\ (dit_pressed /\ ~dah_pressed /\ ~paddle_memory[DAH + 1]) =>
             cur_paddle' = DIT
       /\ (dah_pressed /\ ~dit_pressed /\ ~paddle_memory[DIT + 1]) =>
             cur_paddle' = DAH]_vars

\* C23 witness: in iambic mode A the dah contact was pressed and released,
\* its mark was sent, and a dit is selected for the dit contact held now
C23_HeldContactSelected ==
  /\ paddle_type = "iambic_a"
  /\ updates = 2
  /\ dit_pressed /\ ~dah_pressed
  /\ paddle_memory = <<FALSE, FALSE>>
  /\ pair_queue # << >> /\ LastMark = "dah"
  /\ lp = "generate"
  /\ cur_paddle = DIT

-----------------------------------------------------------------------------
(* start() and stop() of IambicKeyer, SpaceMarkKeyer, PaddleInterface,
   CWStream and DecodedStream, called one after the other by one client.  A
   stream owns the PaddleInterface (pi_ variables), which owns the
   IambicKeyer (ik_ variables) of the iambic types.  stop() joins the loop
   thread; start() is called again when that thread has ended. *)

Streams == {"CWStream", "DecodedStream"}

\* the calls remembered after one more
Called(call) ==
  IF Len(last_calls) < 2 THEN Append(last_calls, call)
  ELSE <<last_calls[2], call>>

\* a start() that never returns early
StartsAnyway(is_running) == FALSE

\* keyer.py 45-46, 240-241, stream.py 48-49, 134-135: start() returns at
\* once on a running instance
StartReturnsEarly(is_running) == is_running

\* keyer.py 43-50 IambicKeyer.start()
IKStartCall ==
  /\ client = "IambicKeyer"
  /\ loops_made < MaxLoops
  /\ ~ik_running => ik_pc = "off"
  /\ last_calls' = Called("start")
  /\ IF StartReturnsEarly(ik_running)
       THEN UNCHANGED <<ik_running, ik_pc, loops_made>>
       ELSE /\ ik_running' = TRUE
            /\ ik_pc' = "poll"
            /\ loops_made' = loops_made + 1
  /\ UNCHANGED <<ik_dit_pressed, ik_dah_pressed, ik_last_was_dit,
                 ik_squeeze_memory, ik_queue, ik_is_dit, ik_sleep, ik_updates,
                 ik_held>>
  /\ UNCHANGED <<client, st_running, st_pc>>
  /\ UNCHANGED <<keyer, skVars, smdVars, txVars, mdVars, raceVars, cwVars,
                 piVars, obsVars, wpmVars>>

\* keyer.py 52-60 IambicKeyer.stop()
IKStopCall ==
  /\ client = "IambicKeyer"
  /\ last_calls' = Called("stop")
  /\ ik_running' = FALSE
  /\ UNCHANGED <<ik_dit_pressed, ik_dah_pressed, ik_last_was_dit,
                 ik_squeeze_memory, ik_queue, ik_pc, ik_is_dit, ik_sleep,
                 ik_updates, ik_held>>
  /\ UNCHANGED <<client, st_running, st_pc, loops_made>>
  /\ UNCHANGED <<keyer, skVars, smdVars, txVars, mdVars, raceVars, cwVars,
                 piVars, obsVars, wpmVars>>

\* keyer.py 238-246 SpaceMarkKeyer.start()
SKStartCall ==
  /\ client = "SpaceMarkKeyer"
  /\ loops_made < MaxLoops
  /\ ~running => lp = "off"
  /\ last_calls' = Called("start")
  /\ IF StartReturnsEarly(running)
       THEN UNCHANGED <<running, elapsed, lp, loops_made>>
       ELSE /\ running' = TRUE
            /\ elapsed' = 0
            /\ lp' = "top"
            /\ loops_made' = loops_made + 1
  /\ UNCHANGED <<paddle_type, dit_pressed, dah_pressed, state, cur_paddle,
                 paddle_memory, timer, timeout_timer, timeout_threads,
                 pair_queue, bug_dit_mode, straight_sending,
                 straight_space_time, lp_i, updates, sq_held,
                 rel_type, rel_marks, stopVars>>
  /\ UNCHANGED <<client, st_running, st_pc>>
  /\ UNCHANGED <<keyer, ikVars, smdVars, txVars, mdVars, raceVars, cwVars,
                 piVars, obsVars, wpmVars>>

\* keyer.py 248-259 SpaceMarkKeyer.stop()
SKStopCall ==
  /\ client = "SpaceMarkKeyer"
  /\ last_calls' = Called("stop")
  /\ IF ~running
       THEN UNCHANGED <<running, timer, timeout_timer, timeout_threads>>
       ELSE /\ running' = FALSE
            /\ timer' = NoTimer
            /\ timeout_threads' = CancelTimeout(timeout_threads, timeout_timer)
            /\ timeout_timer' = 0
  /\ UNCHANGED <<paddle_type, dit_pressed, dah_pressed, state, cur_paddle,
                 paddle_memory, pair_queue, bug_dit_mode, straight_sending,
                 straight_space_time, elapsed, lp, lp_i, updates, sq_held,
                 rel_type, rel_marks, stopVars>>
  /\ UNCHANGED <<client, st_running, st_pc, loops_made>>
  /\ UNCHANGED <<keyer, ikVars, smdVars, txVars, mdVars, raceVars, cwVars,
                 piVars, obsVars, wpmVars>>

\* stream.py 46-54 CWStream.start() and 132-140 DecodedStream.start(),
\* with the paddle.start() they call (paddle.py 77-90)
STStart ==
  /\ client \in Streams
  /\ loops_made < MaxLoops
  /\ ~st_running => (st_pc = "off" /\ ik_pc = "off")
  /\ last_calls' = Called("start")
  /\ IF StartReturnsEarly(st_running)
       THEN UNCHANGED <<st_running, st_pc, loops_made, pi_running, pi_op,
                        pi_ret, pi_started, ik_running, ik_pc>>
       ELSE /\ st_running' = TRUE
            /\ pi_op' = "start"
            /\ pi_ret' = "none"
            /\ pi_started' = TRUE
            /\ IF pi_running
                 THEN UNCHANGED <<pi_running, ik_running, ik_pc>>
                 ELSE /\ pi_running' = TRUE
                      /\ IF pi_keyer
                           THEN ik_running' = TRUE /\ ik_pc' = "poll"
                           ELSE UNCHANGED <<ik_running, ik_pc>>
            /\ st_pc' = "loop"
            /\ loops_made' = loops_made + 1
  /\ UNCHANGED <<pi_paddle_type, pi_keyer, pi_dit_pressed, pi_dah_pressed,
                 pi_event_queue>>
  /\ UNCHANGED <<ik_dit_pressed, ik_dah_pressed, ik_last_was_dit,
                 ik_squeeze_memory, ik_queue, ik_is_dit, ik_sleep, ik_updates,
                 ik_held>>
  /\ UNCHANGED client
  /\ UNCHANGED <<keyer, skVars, smdVars, txVars, mdVars, raceVars, cwVars,
                 obsVars, wpmVars>>

\* stream.py 56-65 CWStream.stop() and 142-151 DecodedStream.stop(), with
\* the paddle.stop() they call (paddle.py 92-104)
STStop ==
  /\ client \in Streams
  /\ last_calls' = Called("stop")
  /\ IF ~st_running
       THEN UNCHANGED <<st_running, pi_running, pi_op, pi_ret, ik_running>>
       ELSE /\ st_running' = FALSE
            /\ pi_op' = "stop"
            /\ pi_ret' = "none"
            /\ pi_running' = FALSE
            /\ ik_running' = IF pi_running /\ pi_keyer THEN FALSE
                             ELSE ik_running
  /\ UNCHANGED <<pi_paddle_type, pi_keyer, pi_dit_pressed, pi_dah_pressed,
                 pi_event_queue, pi_started>>
  /\ UNCHANGED <<ik_dit_pressed, ik_dah_pressed, ik_last_was_dit,
                 ik_squeeze_memory, ik_queue, ik_pc, ik_is_dit, ik_sleep,
                 ik_updates, ik_held>>
  /\ UNCHANGED <<client, st_pc, loops_made>>
  /\ UNCHANGED <<keyer, skVars, smdVars, txVars, mdVars, raceVars, cwVars,
                 obsVars, wpmVars>>

\* stream.py 67 and 157: _process_loop finds _running cleared and ends
STExit ==
  /\ client \in Streams
  /\ st_pc = "loop"
  /\ ~st_running
  /\ st_pc' = "off"
  /\ UNCHANGED <<client, st_running, last_calls, loops_made>>
  /\ UNCHANGED <<keyerVars, smdVars, txVars, mdVars, raceVars, cwVars,
                 piVars, obsVars, wpmVars>>

\* the calls of start() and of stop()
StartCall ==
  \/ IKStartCall
  \/ SKStartCall
  \/ client = "PaddleInterface" /\ PIStart
  \/ STStart

StopCall ==
  \/ IKStopCall
  \/ SKStopCall
  \/ client = "PaddleInterface" /\ PIStop
  \/ STStop

LifeNext ==
  \/ StartCall
  \/ StopCall
  \/ IKExit
  \/ SKExit
  \/ STExit

\* the client constructs one object, with the default configuration or
\* another paddle type
LifeInit ==
  /\ SMDInitAt(DitMs) /\ TxIdle /\ MDIdle /\ RaceIdle /\ CWInitAt(TRUE)
  /\ ObsIdle /\ WpmIdle
  /\ IKInit
  /\ client \in {"IambicKeyer", "SpaceMarkKeyer", "PaddleInterface"} \cup Streams
  /\ st_running = FALSE
  /\ st_pc = "off"
  /\ last_calls = << >>
  /\ loops_made = 0
  /\ \E pt \in PaddleTypes :
       /\ SKInitAt(IF client = "SpaceMarkKeyer" THEN pt ELSE "iambic_b")
       /\ PIInitAt(IF client \in {"IambicKeyer", "SpaceMarkKeyer"}
                     THEN "straight" ELSE pt)
  /\ keyer = CASE client = "SpaceMarkKeyer" -> "SpaceMarkKeyer"
               [] client = "IambicKeyer" -> "IambicKeyer"
               [] OTHER -> IF pi_keyer THEN "IambicKeyer" ELSE "none"

SpecLife == LifeInit /\ [][LifeNext]_vars

\* is_running() of the client's object: keyer.py 174-176 and 498-500,
\* paddle.py 244-246, stream.py 87-89 and 190-192
IsRunning ==
  CASE client = "IambicKeyer" -> ik_running
    [] client = "SpaceMarkKeyer" -> running
    [] client = "PaddleInterface" -> pi_running
    [] OTHER -> st_running

\* the client's last call
LastCall ==
  IF client = "PaddleInterface" THEN pi_op
  ELSE IF last_calls = << >> THEN "init"
  ELSE last_calls[Len(last_calls)]

\* C24: for IambicKeyer, SpaceMarkKeyer, PaddleInterface, CWStream and
\* DecodedStream, after any series of start() and stop() calls is_running()
\* is true iff the last call was start(); start() on a running instance and
\* stop() on a stopped one change nothing, and such a start() creates no loop
\* thread
C24_StartStopIdempotent ==
  /\ [](LastCall # "init" => (IsRunning <=> LastCall = "start"))
  /\ [][((StartCall /\ IsRunning) \/ (StopCall /\ ~IsRunning)) =>
          /\ loops_made' = loops_made
          /\ UNCHANGED <<keyer, ikVars, skVars, st_running, st_pc>>
          /\ UNCHANGED <<pi_paddle_type, pi_keyer, pi_running, pi_dit_pressed,
                         pi_dah_pressed, pi_event_queue>>]_vars

\* C24 witness: a DecodedStream of an iambic type was started twice; it runs
\* with the one loop thread the first start() created
C24_StartedTwice ==
  /\ client = "DecodedStream"
  /\ pi_keyer
  /\ last_calls = <<"start", "start">>
  /\ st_running /\ pi_running /\ ik_running
  /\ st_pc = "loop"
  /\ loops_made = 1

-----------------------------------------------------------------------------
(* VBandConfig: words per minute and the dit duration.  Durations are in ms,
   so 1.2 / wpm seconds is 1200 / wpm.  A double is not the exact quotient:
   each division yields the quotient with a relative error of at most
   1 / Ulps, far more than a double's 2^-53, and the error is any of the
   two extremes or none. *)

Ulps == 1000
FloatErr == {-1, 0, 1}
\* config.py 87: the speeds set_wpm is meant for
Wpms == 5..60

\* the double for the exact value x, off by e / Ulps of it
Fl(x, e) == Rat(x.n * (Ulps + e), x.d * Ulps)

\* int(x) in place of round(x)
PyTruncate(x) == x.n \div x.d

\* Python's round(x) of a positive x: to the nearest integer, a half to the
\* even one
PyRound(x) ==
  LET f == x.n \div x.d
      r2 == 2 * (x.n - f * x.d)
  IN  IF r2 < x.d THEN f
      ELSE IF r2 > x.d THEN f + 1
      ELSE IF f % 2 = 0 THEN f
      ELSE f + 1

\* config.py 45-58 wpm_to_dit_duration(wpm)
WpmToDitDuration(wpm, e) == Fl(Rat(1200, wpm), e)

\* config.py 60-70 dit_duration_to_wpm(dit_duration)
DitDurationToWpm(dit_duration, e) ==
  PyRound(Fl(Rat(1200 * dit_duration.d, dit_duration.n), e))

\* the caller evaluates dit_duration_to_wpm(wpm_to_dit_duration(wpm)) on a
\* configuration whose speed has not been set
RoundTrip(wpm, e1, e2) ==
  /\ target_wpm = 0
  /\ wpm_op' = "round_trip"
  /\ wpm_arg' = wpm
  /\ wpm_ret' = DitDurationToWpm(WpmToDitDuration(wpm, e1), e2)
  /\ UNCHANGED <<target_wpm, cwVars>>
  /\ UNCHANGED <<smdVars, txVars, mdVars, keyerVars, raceVars, piVars,
                 obsVars, lifeVars>>

\* config.py 87-95 set_wpm(wpm)
SetWpm(wpm, e) ==
  /\ wpm_op' = "set_wpm"
  /\ wpm_arg' = wpm
  /\ wpm_ret' = 0
  /\ cw_dit_duration' = WpmToDitDuration(wpm, e)
  /\ target_wpm' = wpm
  /\ UNCHANGED <<press_time, recent_durations, cw_auto_wpm, cw_ret, cw_event,
                 cw_now, cw_events, recent_dits>>
  /\ UNCHANGED <<smdVars, txVars, mdVars, keyerVars, raceVars, piVars,
                 obsVars, lifeVars>>

\* config.py 82-85 current_wpm
CurrentWpm(e) ==
  /\ wpm_op' = "current_wpm"
  /\ wpm_arg' = 0
  /\ wpm_ret' = DitDurationToWpm(cw_dit_duration, e)
  /\ UNCHANGED <<target_wpm, cwVars>>
  /\ UNCHANGED <<smdVars, txVars, mdVars, keyerVars, raceVars, piVars,
                 obsVars, lifeVars>>

WpmNext ==
  \/ \E wpm \in Wpms, e1 \in FloatErr, e2 \in FloatErr : RoundTrip(wpm, e1, e2)
  \/ \E wpm \in Wpms, e \in FloatErr : SetWpm(wpm, e)
  \/ \E e \in FloatErr : CurrentWpm(e)

\* VBandConfig() with its defaults
WpmInit ==
  /\ SMDInitAt(DitMs) /\ TxIdle /\ MDIdle /\ NoKeyer
  /\ RaceIdle /\ CWInitAt(TRUE) /\ PIInitAt("straight")
  /\ ObsIdle /\ LifeIdle /\ WpmIdle

SpecWpm == WpmInit /\ [][WpmNext]_vars

\* C25: for every integer wpm from 5 to 60,
\* dit_duration_to_wpm(wpm_to_dit_duration(wpm)) is wpm, and after
\* set_wpm(wpm) both target_wpm and current_wpm are wpm
C25_WpmRoundTrip ==
  /\ [](wpm_op = "round_trip" => wpm_ret = wpm_arg)
  /\ [](wpm_op = "set_wpm" => target_wpm = wpm_arg)
  /\ []((wpm_op = "current_wpm" /\ target_wpm # 0) => wpm_ret = target_wpm)

\* C25 witness: set_wpm(59) left a dit duration that is not exactly
\* 1200/59 ms, and current_wpm is 59
C25_SpeedRead ==
  /\ wpm_op = "current_wpm"
  /\ target_wpm = 59
  /\ cw_dit_duration # Rat(1200, 59)
  /\ wpm_ret = 59

-----------------------------------------------------------------------------
(* The elements IambicKeyer generates *)

\* C26: IambicKeyer queues no element while no paddle is held; while exactly
\* one paddle is held and no squeeze memory is set the element queued is of
\* that paddle's type; an element lasts one dit unit (dit) or three (dah);
\* and the loop generates the next element only when the element's duration
\* and one more dit have passed
C26_ElementGeneration ==
  [][(keyer = "IambicKeyer") =>
       LET generates == ik_pc = "poll" /\ ik_pc' = "sleep"
           element == ik_queue'[Len(ik_queue')]
       IN  /\ ik_queue' # ik_queue => generates
           /\ generates =>
                 /\ ik_dit_pressed \/ ik_dah_pressed
                 /\ ik_queue' # << >>
                 /\ element.duration = IF element.is_dit THEN 1 ELSE 3
                 /\ ik_sleep' = element.duration + 1
                 /\ (ik_dit_pressed /\ ~ik_dah_pressed /\ ~ik_squeeze_memory)
                       => element.is_dit
                 /\ (ik_dah_pressed /\ ~ik_dit_pressed /\ ~ik_squeeze_memory)
                       => ~element.is_dit
           /\ (ik_pc = "sleep" /\ ik_pc' # "sleep") => ik_sleep = 0
           /\ (ik_pc = "sleep" /\ ik_sleep' # ik_sleep) =>
                 ik_sleep' = ik_sleep - 1]_vars

\* C26 witness: the dah paddle alone has been held since the first update;
\* a dah of three units is queued and the loop still sleeps, with the one
\* dit of space left
C26_DahThenSpace ==
  /\ keyer = "IambicKeyer"
  /\ ik_updates = 1
  /\ ik_dah_pressed /\ ~ik_dit_pressed
  /\ ik_queue = <<[is_dit |-> FALSE, duration |-> 3]>>
  /\ ik_pc = "sleep"
  /\ ik_sleep = 1

-----------------------------------------------------------------------------
(* The timers of SpaceMarkKeyer *)

\* C27: at most one paddle-timeout timer waits at any time, whatever the
\* interleaving of update_paddle_state, the timeout callback and stop(), and
\* the callback never clears the contacts less than 5 s after the last press:
\* not while a timer started by a later press still has time to run
C27_OneTimeoutTimer ==
  /\ [](Cardinality({i \in TimerIds : timeout_threads[i].phase = "wait"}) <= 1)
  /\ [][\A id \in TimerIds :
          (/\ timeout_threads[id].phase = "fired"
           /\ timeout_threads'[id].phase = "cleared") =>
             \A j \in TimerIds :
               ~(timeout_threads[j].phase = "wait" /\ timeout_threads[j].rem > 0)]_vars

\* C27 witness: the second press came while the first timer waited; that
\* timer was cancelled and the one timer waiting is the new one
C27_TimerReplaced ==
  /\ keyer = "SpaceMarkKeyer"
  /\ updates = 2
  /\ dit_pressed /\ dah_pressed
  /\ timeout_timer = 1
  /\ timeout_threads = <<[phase |-> "wait", rem |-> TimeoutDits], Free>>
  /\ elapsed > 0

\* C28: a mark or inter-element timer is started only when none is pending,
\* so at most one is outstanding, and in the iambic disciplines a tick of
\* the loop that finds the timer pending changes no keyer state and queues
\* no pair
C28_OneMarkTimer ==
  [][(keyer = "SpaceMarkKeyer") =>
       /\ (timer' \notin {timer, timer - 1, NoTimer}) => timer = NoTimer
       /\ (paddle_type \in Iambic /\ lp = "top" /\ timer # NoTimer) =>
             /\ lp' \in {"top", "off"}
             /\ state' = state
             /\ pair_queue' = pair_queue
             /\ updates' = updates =>
                  (cur_paddle' = cur_paddle /\ paddle_memory' = paddle_memory)]_vars

\* C28 witness: in iambic mode B a dah is under way; its timer has two dits
\* left and the loop, back at the top, waits for it
C28_TickWaits ==
  /\ keyer = "SpaceMarkKeyer"
  /\ paddle_type = "iambic_b"
  /\ running
  /\ lp = "top"
  /\ state = "MARK"
  /\ pair_queue # << >> /\ LastMark = "dah"
  /\ timer = 2
  /\ elapsed = 1

\* C29: a timer callback that runs after stop() has begun and whose timer is
\* no longer the keyer's current one changes no keyer state: it leaves the
\* recorded contacts and the handle of the current timer alone
C29_StaleCallbackIsNoOp ==
  [][(keyer = "SpaceMarkKeyer" /\ stops > 0 /\ ~running) =>
       \A id \in TimerIds :
         (/\ timeout_timer # id
          /\ timeout_threads[id].phase \in {"fired", "cleared"}
          /\ timeout_threads'[id] # timeout_threads[id]) =>
            /\ dit_pressed' = dit_pressed
            /\ dah_pressed' = dah_pressed
            /\ timeout_timer' = timeout_timer]_vars

\* C29 witness: stop() came while the timeout timer of a press still waited;
\* the timer was cancelled, no callback runs and the contact stays recorded
C29_CancelledInTime ==
  /\ keyer = "SpaceMarkKeyer"
  /\ stops = 1 /\ ~running /\ stop_pc = "none"
  /\ updates = 1
  /\ dit_pressed
  /\ timeout_timer = 0
  /\ \A i \in TimerIds : timeout_threads[i] = Free
  /\ elapsed > 0

-----------------------------------------------------------------------------
(* The contacts one tick of the iambic update reads *)

\* C30: within one tick of the iambic update every contact value a decision
\* uses comes from one contact state: when a selection check reads a contact,
\* no update_paddle_state has changed the contacts since the tick read one
\* for its memory refresh or for its first check
C30_OneSnapshotPerTick ==
  [][(keyer = "SpaceMarkKeyer" /\ paddle_type \in Iambic) =>
       LET cur == IF paddle_type # "iambic_a" THEN 1 - cur_paddle
                  ELSE cur_paddle
           checks == /\ lp = "select"
                     /\ (lp' # lp \/ lp_i' # lp_i)
                     /\ ~paddle_memory[cur + 1]
       IN  checks => ~snap_stale]_vars

\* C30 witness: in iambic mode B the tick after an inter-element space has
\* refreshed the memory and selected the dah for the contact held, and no
\* update has come since it began
C30_TickUndisturbed ==
  /\ keyer = "SpaceMarkKeyer"
  /\ paddle_type = "iambic_b"
  /\ state = "INTER_ELEMENT"
  /\ lp = "generate"
  /\ cur_paddle = DAH
  /\ dah_pressed /\ ~dit_pressed
  /\ paddle_memory = <<FALSE, TRUE>>
  /\ ~snap_stale

-----------------------------------------------------------------------------
(* The state machine of the iambic update *)

\* the changes of self._state the iambic update makes (keyer.py 343-387)
IambicTransitions ==
  {<<"IDLE", "MARK">>, <<"INTER_ELEMENT", "MARK">>,
   <<"MARK", "INTER_ELEMENT">>, <<"INTER_ELEMENT", "IDLE">>}

\* C31: in the iambic disciplines the state of the SpaceMarkKeyer changes
\* only from Idle to Mark, from InterElement to Mark, from Mark to
\* InterElement and from InterElement to Idle, and a pair queued after
\* another mark has a space of at least one dit length
C31_IambicStateMachine ==
  [][(keyer = "SpaceMarkKeyer" /\ paddle_type \in Iambic) =>
       /\ state' # state => <<state, state'>> \in IambicTransitions
       /\ (SKGenerates /\ pair_queue # << >>) =>
            pair_queue'[Len(pair_queue')].space >= 1]_vars

\* C31 witness: one dit length after a mark ended the tick has selected the
\* next mark and is about to generate it
C31_MarkAfterOneDitOfSpace ==
  /\ keyer = "SpaceMarkKeyer"
  /\ paddle_type \in Iambic
  /\ state = "INTER_ELEMENT"
  /\ lp = "generate"
  /\ pair_queue # << >>
  /\ elapsed = 1
  /\ stops = 0

-----------------------------------------------------------------------------
(* The pairs the iambic update queues *)

-----------------------------------------------------------------------------
(* Press latching *)

\* C33: in iambic A and B a press reported while the keyer is idle, or a
\* press of the other paddle reported during a mark, leads to a mark of the
\* pressed paddle, whenever the release is reported
C33_PressLatched ==
  /\ owed[DIT + 1] ~> ~owed[DIT + 1]
  /\ owed[DAH + 1] ~> ~owed[DAH + 1]

\* C33 witness: the dah paddle was pressed during a dit and released before
\* the dit ended, and after the dit the dah has been generated
C33_DahAfterTap ==
  /\ keyer = "SpaceMarkKeyer"
  /\ paddle_type \in {"iambic_a", "iambic_b"}
  /\ updates = 2
  /\ ~dit_pressed /\ ~dah_pressed
  /\ state = "MARK"
  /\ LastMark = "dah"
  /\ mark_gap = 1
  /\ owed = <<FALSE, FALSE>>

-----------------------------------------------------------------------------
(* CWDecoder: the two press slots *)

\* C34: an event of one key leaves the slot of the other key alone; a press
\* returns nothing and records its timestamp in the slot of its key; a
\* release of a key whose slot is set returns one element of that key whose
\* duration is the release timestamp minus the slot, and clears the slot
C34_PressReleasePairing ==
  [][cw_events' = cw_events + 1 =>
       LET is_dit == cw_event'[1]
           is_pressed == cw_event'[2]
       IN  /\ press_time'[~is_dit] = press_time[~is_dit]
           /\ is_pressed =>
                /\ cw_ret' = << >>
                /\ press_time'[is_dit] = cw_now'
           /\ (~is_pressed /\ press_time[is_dit] # NoTime) =>
                /\ Len(cw_ret') = 1
                /\ cw_ret'[1].is_dit = is_dit
                /\ cw_ret'[1].duration = cw_now' - press_time[is_dit]
                /\ press_time'[is_dit] = NoTime]_vars

\* C34 witness: the dit key was pressed first and released last of four
\* events, the dah key is still held, and the element returned is a dit that
\* lasted from the first event to the fourth
C34_DitAroundDahPress ==
  /\ cw_events = 4
  /\ cw_event = <<TRUE, FALSE>>
  /\ press_time[FALSE] # NoTime
  /\ Len(cw_ret) = 1
  /\ cw_ret[1].is_dit
  /\ cw_ret[1].duration = cw_now - cw_ret[1].timestamp
  /\ cw_ret[1].duration = 300

-----------------------------------------------------------------------------
(* CWDecoder: the history of the adaptive estimator *)

\* the deque after RecentMax elements, n dits of one dit length and then
\* dahs of three; none of them has changed the estimate
FullHistory(n) ==
  [i \in 1..RecentMax |->
     IF i <= n THEN <<DitMs, TRUE>> ELSE <<3 * DitMs, FALSE>>]

\* decoder.py 110-118, 145-159: a decoder without auto_wpm, or one with
\* auto_wpm that was given RecentMax elements
CWFullInit ==
  /\ SMDInitAt(DitMs) /\ TxIdle /\ MDIdle /\ NoKeyer
  /\ RaceIdle /\ PIInitAt("straight") /\ MoreIdle
  /\ press_time = [key_type \in BOOLEAN |-> NoTime]
  /\ cw_dit_duration = RInt(DitMs)
  /\ cw_ret = << >>
  /\ cw_event = << >>
  /\ cw_now = 0
  /\ cw_events = 0
  /\ \/ /\ cw_auto_wpm = FALSE
        /\ recent_durations = << >>
        /\ recent_dits = << >>
     \/ /\ cw_auto_wpm = TRUE
        /\ \E n \in 0..RecentMax :
             /\ recent_durations = FullHistory(n)
             /\ recent_dits = [i \in 1..n |-> DitMs]

\* a CWDecoder whose deque is full
SpecCWFull == CWFullInit /\ [][CWNext]_vars

\* the durations of the dits of the deque, oldest first
DitDurations(recent) ==
  LET IsDit(x) == x[2]
      dits == SelectSeq(recent, IsDit)
  IN  [i \in 1..Len(dits) |-> dits[i][1]]

\* C35: with auto_wpm the dits the estimator consults after an element are
\* the last dits it was given, up to ten, whatever dahs came since; with at
\* least three of them dit_duration becomes 0.7 x current + 0.3 x their
\* median if that changes it by more than 10%, and stays otherwise; without
\* auto_wpm process_event never changes dit_duration
C35_DitHistory ==
  [][cw_events' = cw_events + 1 =>
       LET dits == [i \in 1..Len(recent_dits') |-> <<recent_dits'[i], TRUE>>]
       IN  /\ ~cw_auto_wpm => cw_dit_duration' = cw_dit_duration
           /\ (cw_auto_wpm /\ cw_ret' # << >>) =>
                /\ DitDurations(recent_durations') = recent_dits'
                /\ cw_dit_duration' = AdjustedDit(dits, cw_dit_duration)]_vars

\* C35 witness: the last three of ten elements were dits, and the third has
\* changed the estimate
C35_ThirdDitAdjusts ==
  /\ cw_auto_wpm
  /\ Len(recent_durations) = RecentMax
  /\ recent_dits = DitDurations(recent_durations)
  /\ Len(recent_dits) = 3
  /\ cw_ret # << >>
  /\ cw_dit_duration # RInt(DitMs)

-----------------------------------------------------------------------------
(* SpaceMarkDecoder: the space step of decode_space_mark on its own *)

\* space durations (ms): intra-character, inter-character below and above
\* char_space, and inter-word, for dit lengths of 60 and 80 ms
StepSpaces == {70, 200, 300, 500}

\* decode_space_mark statement by statement, no timer thread running
SpaceStepNext ==
  \/ \E s \in StepSpaces, m \in RaceMarks : CallDecodeSpaceMark(s, m)
  \/ SpaceClearTimer
  \/ CallerFlushClear
  \/ CallerFlushTest
  \/ CallerFlushLookup
  \/ CallerFlushAppend
  \/ CallerFlushReset
  \/ SpaceClassify
  \/ MarkDouble
  \/ MarkDah
  \/ MarkAdapt
  \/ MarkArmTimer

SpaceStepInit ==
  (\E d \in DitLengths : SMDInitAt(d)) /\ TxIdle /\ MDIdle /\ RestIdle /\ NoKeyer

SpecSpaceStep == SpaceStepInit /\ [][SpaceStepNext]_vars

\* C36: the space step sets char_space on a character-boundary space s to
\* 0.5 x char_space + 0.5 x s if s < char_space and to
\* 0.8 x char_space + 0.2 x s otherwise, multiplies it by 1.03 on a
\* word-boundary space, and on an intra-character space changes neither
\* char_space nor dit_length, the tree index or the decoded text
C36_CharSpaceAdaptation ==
  [][LET s == RInt(mt_space)
         word == \/ RLe(RScale(RScale(char_space, 1, 3), 11, 2), s)
                 \/ mt_space >= 3000
     IN  /\ (mt_pc = "space2" /\ mt_pc' = "mark") =>
              char_space' =
                IF word THEN RScale(char_space, 103, 100)
                ELSE IF RLt(s, char_space)
                  THEN RScale(RAdd(char_space, s), 1, 2)
                ELSE RAdd(RScale(char_space, 8, 10), RScale(s, 2, 10))
         /\ (mt_pc = "space" /\ mt_pc' = "mark") =>
              UNCHANGED <<char_space, dit_length, morse_ch, decoded_text>>]_vars

\* C36 witness: with char_space 220 after a space of 200 ms, a space of
\* 300 ms has been classified as a character boundary and char_space is 236
C36_AdaptedTwice ==
  /\ dit_length = RInt(80)
  /\ smd_calls = 2
  /\ mt_pc = "mark"
  /\ mt_space = 300
  /\ char_space = RInt(236)

-----------------------------------------------------------------------------
(* SpaceMarkDecoder: the tree index *)

-----------------------------------------------------------------------------
(* SpaceMarkDecoder: the decoded text and what the calls return *)

\* C38: the decoded text is the concatenation of what the calls returned:
\* decode_space_mark() and flush() append to the text exactly what they
\* return, an expiry of the flush timer, which returns nothing to a caller,
\* appends nothing, and only clear() empties the text
C38_TextIsRecord ==
  [][/\ \A s \in Spaces, m \in Marks :
          DecodeSpaceMark(s, m) => decoded_text' = decoded_text \o smd_ret'
     /\ Flush => decoded_text' = decoded_text \o smd_ret'
     /\ FlushTimerExpired => decoded_text' = decoded_text
     /\ (decoded_text # << >> /\ decoded_text' = << >>) => Clear]_vars

\* C38 witness: the second call returned the character "T" its space ended,
\* and the text is that character
C38_CharacterReturned ==
  /\ smd_calls = 2
  /\ smd_ret = <<"T">>
  /\ decoded_text = <<"T">>
  /\ flush_timer

-----------------------------------------------------------------------------
(* MorseDecoder: every element ends up in one character *)

\* C39: process_element() splits the pending pattern followed by the new
\* symbol into the pattern of the character it returns, if any, and the
\* pattern pending afterwards, which holds the new symbol; flush() returns
\* the character of the whole pending pattern and empties it when
\* now - last_element_time >= the character space, and returns nothing and
\* leaves the pattern otherwise: so the patterns of the characters returned
\* followed by the pending pattern are the symbols processed, in order
C39_ElementsConserved ==
  [][/\ \A is_dit \in BOOLEAN, silence \in Silences :
          ProcessElement(is_dit, silence) =>
            LET symbol == IF is_dit THEN "." ELSE "-"
                all == Append(current_char, symbol)
            IN  \E k \in 0..Len(current_char) :
                  LET flushed == SubSeq(all, 1, k)
                      char == IF k = 0 THEN << >> ELSE PatternChar(flushed)
                  IN  /\ flushed \o current_char' = all
                      /\ md_ret' \in {char, char \o <<" ">>}
     /\ \A wait \in FlushWaits :
          MDFlush(wait) =>
            IF /\ last_element_time # NoTime
               /\ md_now' - last_element_time >= CharSpaceDuration
              THEN /\ current_char' = << >>
                   /\ md_ret' = IF current_char = << >> THEN << >>
                                ELSE PatternChar(current_char)
              ELSE /\ current_char' = current_char
                   /\ md_ret' = << >>]_vars

\* C39 witness: of three elements the first was returned as a character by
\* the call for the second, and flush() has returned "A" for the other two
C39_FlushedRest ==
  /\ md_count = 3
  /\ md_op = "flush"
  /\ md_ret = <<"A">>
  /\ current_char = << >>
  /\ last_element_time # NoTime

====
